---- MODULE Spec2Model ----
(***************************************************************************)
(* Device session and retry protocol of the Ledger signers.               *)
(*                                                                         *)
(*   - LedgerSigner.create / SolanaLedgerSigner.create: lazy creation of   *)
(*     the one transport + device application shared by every signer.      *)
(*   - retry (ledger-signer-common): the bounded polling retry around a    *)
(*     device operation, with the optional error hook.                     *)
(*                                                                         *)
(* Every `await` of the source is a suspension point, so every action      *)
(* below is the synchronous run of one async function between two awaits.  *)
(***************************************************************************)
EXTENDS Integers, Sequences, FiniteSets, TLC

\* Number of logical callers of create() in the process.
NumCallers == 2

\* Cap on the number of transports the model lets the factory hand out
\* (the code has no such cap; the guard only stops a runaway counter).
MaxOpens == 2

\* `for (let i = 0; i < 1200; i++)` of create().
PollLimit == 1200

\* `if (i === 1199)` of create().
PollLast == 1199

\* `await sleep(100)`.
SleepMs == 100

Callers == 1..NumCallers

Handles == 1..MaxOpens

\* `undefined`, the value of the static `app` before it is assigned.
Undefined == 0

\* `for (let i = 0; i < 1200; i++)` of retry().
RetryLimit == 1200

\* `error?.statusCode === 27404` of the signers' error hook.
AppNotRunningStatus == 27404

\* `(error as any)?.statusCode !== 27904` of signTypedData.
UnsupportedStatus == 27904

\* `error?.id !== "TransportLocked"`.
BusyId == "TransportLocked"

\* `undefined` where a value is expected.
NoValue == [form |-> "undefined", payload |-> "none"]

\* The payload v as the device API resolved with it.
Raw(v) == [form |-> "raw", payload |-> v]

\* A value an operation resolved with, or an execute/signer call returned.
Val(v) == [kind |-> "value", value |-> v, id |-> "none", statusCode |-> 0, message |-> "none"]

\* An error object: `id` and `statusCode` are "none" and 0 when absent.
Err(id, status, msg) ==
    [kind |-> "error", value |-> NoValue, id |-> id, statusCode |-> status, message |-> msg]

\* No outcome yet: nothing but its kind.
NoOutcome == [kind |-> "none"]

\* `throw new Error("timeout")`.
TimeoutError == Err("none", 0, "timeout")

\* `throw new Error(`Ledger device is not running Ethereum App`)`.
AppNotRunningError == Err("none", 0, "Ledger device is not running Ethereum App")

\* Errors the device API rejects an operation with: with or without the busy
\* sentinel, with or without a status code (27013: rejected by the user).
DeviceErrors ==
    {Err(BusyId, st, "device") : st \in {0, AppNotRunningStatus}}
        \cup {Err("none", st, "device") : st \in {0, AppNotRunningStatus, UnsupportedStatus, 27013}}

\* Payloads the device API resolves an operation with.
DeviceValues == {"payloadA", "payloadB"}

\* Normalized derivation paths of the signer instances.
Paths == {"44'/60'/0'/0/0"}

\* The signer packages, and "common" for the retry executor used on its own.
Signers == {"ethers-v5", "ethers-v6", "viem-v2", "solana"}

Modules == Signers \cup {"common"}

\* Device operations each signer runs through its retry executor.
OpsOf(m) ==
    CASE m = "ethers-v5" -> {"getAddress", "signMessage", "signTransaction"}
      [] m = "ethers-v6" -> {"getAddress", "signMessage", "signTransaction", "signTypedData"}
      [] m = "viem-v2" -> {"getAddress", "signMessage", "signTransaction", "signTypedData"}
      [] m = "solana" -> {"getAddress", "signMessage", "signTransaction"}
      [] OTHER -> {}

\* errorHook each signer passes to retry(): `retry(this, (error) => {...})`
\* in the Ethereum signers, `retry(this)` in the Solana signer.
HookOf(m) ==
    CASE m = "solana" -> "undefined"
      [] OTHER -> "appNotRunning"

\* Error hooks an executor is built with: none, the signers' hook, and a hook
\* that rejects busy errors.
Hooks == {"undefined", "appNotRunning", "rejectBusy"}

\* Whether errorHook(error) throws.
HookThrows(h, e) ==
    CASE h = "appNotRunning" -> e.statusCode = AppNotRunningStatus
      [] h = "rejectBusy" -> e.id = BusyId
      [] OTHER -> FALSE

\* The error errorHook(error) throws.
HookError(h, e) ==
    CASE h = "appNotRunning" -> AppNotRunningError
      [] OTHER -> Err("none", 0, "hook")

\* The "0x" that hexlify, hashDomain and the serializers put in front of hex.
HexPrefix == <<"0", "x">>

\* `"0x" + h` / `0x${h}`.
WithPrefix(h) == HexPrefix \o h

\* `h.substring(2)`.
Substring2(h) == SubSeq(h, 3, Len(h))

\* The `r` and `s` of the signature object the device API resolves with for
\* payload v: hex digits without prefix.
DeviceSignature(v) ==
    CASE v = "payloadA" -> [r |-> <<"a", "1">>, s |-> <<"a", "2">>]
      [] v = "payloadB" -> [r |-> <<"b", "1">>, s |-> <<"b", "2">>]

\* The `r` and `s` a signing method hands to its serializer: `0x${sig.r}` and
\* `0x${sig.s}` everywhere but in LedgerAccount.signTransaction, which passes
\* `signature.r as Hex` and `signature.s as Hex`.
SerializerInput(m, op, sig) ==
    IF m = "viem-v2" /\ op = "signTransaction"
    THEN [r |-> sig.r, s |-> sig.s]
    ELSE [r |-> WithPrefix(sig.r), s |-> WithPrefix(sig.s)]

\* What a signer call returns for the payload the device resolved with: the
\* checksummed address for the Ethereum getAddress, the raw address and the
\* raw signature for the Solana methods, the serialization of the signature
\* fields for the Ethereum signing methods.
CallValue(m, op, v) ==
    CASE op = "execute" -> v
      [] m = "solana" -> v
      [] op = "getAddress" -> [form |-> "checksum", payload |-> v.payload]
      [] OTHER ->
            LET fields == SerializerInput(m, op, DeviceSignature(v.payload)) IN
                [form |-> "serialized", payload |-> v.payload, r |-> fields.r, s |-> fields.s]

\* `TypedDataEncoder.hashDomain(domain)` / `hashDomain({domain, types})` of the
\* typed message being signed: a hex string.
DomainHash == WithPrefix(<<"d", "0">>)

\* `TypedDataEncoder.from(types).hash(value)` / `hashTypedData(typedMessage)`.
ValueHash == WithPrefix(<<"e", "1">>)

\* `(eth) => eth.signEIP712HashedMessage(this.path, domainHash.substring(2),
\* valueHash.substring(2))`.
HashedOperation(p) ==
    [name |-> "signEIP712HashedMessage", path |-> p,
     domainHash |-> Substring2(DomainHash), valueHash |-> Substring2(ValueHash)]

\* The device operation a signer method hands to its executor first.
DeviceOperation(m, op, p) ==
    CASE op = "getAddress" -> [name |-> "getAddress", path |-> p]
      [] op = "signMessage" /\ m = "solana" -> [name |-> "signOffchainMessage", path |-> p]
      [] op = "signMessage" -> [name |-> "signPersonalMessage", path |-> p]
      [] op = "signTransaction" /\ m = "solana" -> [name |-> "signTransaction", path |-> p]
      [] op = "signTransaction" -> [name |-> "clearSignTransaction", path |-> p]
      [] op = "signTypedData" -> [name |-> "signEIP712Message", path |-> p]
      [] OTHER -> [name |-> "operation"]

VARIABLES
    createEthApp,   \* module flag `let createEthApp = false`
    app,            \* static `LedgerSigner.app`: Undefined or a handle
    opens,          \* number of Transport.open invocations so far
    live,           \* per handle: state of its getAppConfiguration() check
    cpc,            \* per caller: where its create() call stands
    ci,             \* per caller: loop variable `i` while inside the polling loop
    ctransport,     \* per caller: the transport its Transport.open was asked for
    csleep,         \* per caller: duration of its pending sleep(), 0 when none
    cobserved,      \* per caller: session state seen when create() was entered
    csigner,        \* per caller: handle held by the signer create() returned
    cerror,         \* per caller: message of the error create() threw
    smodule,        \* the signer package this process uses ("common": retry alone)
    spc,            \* the signer call in progress: where it stands
    sop,            \* the signer call in progress: which method
    spath,          \* the signer call in progress: `this.path`
    sphase,         \* signTypedData: "direct" or "fallback"; "single" otherwise
    sresult,        \* outcome of the last signer call
    addressCache,   \* module constant `addressCache`, by normalized path
    rpc,            \* the execute (retry) call in progress: where it stands
    rhook,          \* errorHook the executor was built with
    ri,             \* loop variable `i` of the retry loop
    rapp,           \* `container.app` as read for the last invocation
    rsleep,         \* duration of the pending sleep() of the retry loop
    rinvocations,   \* invocations of the operation in this execute call
    rpauses,        \* sleep() calls made by this execute call
    rhookcalls,     \* errorHook invocations in this execute call
    rhookarg,       \* error passed to the last errorHook invocation
    rbusy,          \* invocations that failed with the busy sentinel
    rlast,          \* outcome of the last invocation of the operation
    rresult,        \* outcome of the execute call
    soperations,    \* the signer call in progress: operations it handed to the executor
    cacheWrites,    \* per normalized path: assignments made to its cache entry
    job,            \* concurrent signer calls, in the order in which they started
    device,         \* the device API lock: the call whose command is in flight
    parser,         \* parseBip32Path / create(path): input, call made and outcome
    signing         \* what a signing method hands on, from what it was given

sessionVars == <<createEthApp, app, opens, live>>

callerVars == <<cpc, ci, ctransport, csleep, cobserved, csigner, cerror>>

signerVars == <<smodule, spc, sop, spath, sphase, sresult, addressCache, soperations, cacheWrites>>

retryVars == <<rpc, rhook, ri, rapp, rsleep, rinvocations, rpauses, rhookcalls, rhookarg, rbusy, rlast, rresult>>

concurrentVars == <<job, device>>

parserVars == <<parser>>

signingVars == <<signing>>

vars == <<sessionVars, callerVars, signerVars, retryVars, concurrentVars, parserVars, signingVars>>

TimedOutMsg == "Timed out while waiting for transport to open."

\* No signer call and no execute call has been made.
SignerIdle ==
    /\ spc = "idle"
    /\ sop = "none"
    /\ spath = "none"
    /\ sphase = "none"
    /\ sresult = NoOutcome
    /\ addressCache = [p \in Paths |-> NoValue]
    /\ soperations = <<>>
    /\ cacheWrites = [p \in Paths |-> 0]

RetryIdle ==
    /\ rpc = "idle"
    /\ rhook = "undefined"
    /\ ri = 0
    /\ rapp = Undefined
    /\ rsleep = 0
    /\ rinvocations = 0
    /\ rpauses = 0
    /\ rhookcalls = 0
    /\ rhookarg = NoOutcome
    /\ rbusy = 0
    /\ rlast = NoOutcome
    /\ rresult = NoOutcome

\* No path has been given to the parser.
NoParse == [call |-> "none", path |-> <<>>, result |-> NoOutcome, origin |-> NoOutcome]

ParserIdle == parser = NoParse

\* No signing method has been given anything.
NoSigning ==
    [call |-> "none", v |-> <<>>, domain |-> "none", value |-> "none",
     recovery |-> NoOutcome, submitted |-> NoOutcome]

SigningIdle == signing = NoSigning

\* The device API lock is free.
NoCommand == [owner |-> 0, waited |-> 0]

\* No concurrent signer call has started.
ConcurrentIdle ==
    /\ job = <<>>
    /\ device = NoCommand

SessionInit ==
    /\ smodule = "ethers-v5"
    /\ SignerIdle
    /\ RetryIdle
    /\ ConcurrentIdle
    /\ ParserIdle
    /\ SigningIdle
    /\ createEthApp = FALSE
    /\ app = Undefined
    /\ opens = 0
    /\ live = [h \in Handles |-> "none"]
    /\ cpc = [c \in Callers |-> "idle"]
    /\ ci = [c \in Callers |-> 0]
    /\ ctransport = [c \in Callers |-> Undefined]
    /\ csleep = [c \in Callers |-> 0]
    /\ cobserved = [c \in Callers |-> "none"]
    /\ csigner = [c \in Callers |-> Undefined]
    /\ cerror = [c \in Callers |-> "none"]

\* The session state a caller sees on entering create().
SessionState ==
    IF ~createEthApp THEN "Uninitialized"
    ELSE IF app = Undefined THEN "Initializing"
    ELSE "Ready"

\* Callers are numbered in the order in which they enter create(): the
\* callers are interchangeable, so this only names them.
Entering(c) ==
    /\ cpc[c] = "idle"
    /\ \A d \in Callers : d < c => cpc[d] # "idle"

\* `return new LedgerSigner(provider, this.app, path)`.
ReturnSigner(c) ==
    /\ cpc' = [cpc EXCEPT ![c] = "returned"]
    /\ csigner' = [csigner EXCEPT ![c] = app']

\* create() rejects with an error carrying message msg.
Throw(c, msg) ==
    /\ cpc' = [cpc EXCEPT ![c] = "threw"]
    /\ cerror' = [cerror EXCEPT ![c] = msg]

\* `await sleep(100)`: the caller is suspended on a setTimeout timer.
Sleep(c) ==
    /\ cpc' = [cpc EXCEPT ![c] = "sleeping"]
    /\ csleep' = [csleep EXCEPT ![c] = SleepMs]

\* The caller leaves the loop on the timer that just fired.
Awake(c) ==
    csleep' = [csleep EXCEPT ![c] = 0]

\* CreateClaim with the flag left unset while the transport opens.
CreateClaimFlagNotSet(c) ==
    /\ Entering(c)
    /\ ~createEthApp
    /\ opens < MaxOpens
    /\ opens' = opens + 1
    /\ ctransport' = [ctransport EXCEPT ![c] = opens + 1]
    /\ cpc' = [cpc EXCEPT ![c] = "opening"]
    /\ cobserved' = [cobserved EXCEPT ![c] = "Uninitialized"]
    /\ UNCHANGED <<createEthApp, app, live, ci, csleep, csigner, cerror>>
    /\ UNCHANGED <<signerVars, retryVars, concurrentVars, parserVars, signingVars>>

\* `if (!createEthApp) { createEthApp = true; ... await Transport.open(undefined)`.
CreateClaim(c) ==
    /\ Entering(c)
    /\ ~createEthApp
    /\ opens < MaxOpens
    /\ createEthApp' = TRUE
    /\ opens' = opens + 1
    /\ ctransport' = [ctransport EXCEPT ![c] = opens + 1]
    /\ cpc' = [cpc EXCEPT ![c] = "opening"]
    /\ cobserved' = [cobserved EXCEPT ![c] = "Uninitialized"]
    /\ UNCHANGED <<app, live, ci, csleep, csigner, cerror>>
    /\ UNCHANGED <<signerVars, retryVars, concurrentVars, parserVars, signingVars>>

\* `else if (this.app === undefined) { for (let i = 0; ...) { await sleep(100)`.
CreateWait(c) ==
    /\ Entering(c)
    /\ createEthApp
    /\ app = Undefined
    /\ cobserved' = [cobserved EXCEPT ![c] = "Initializing"]
    /\ ci' = [ci EXCEPT ![c] = 0]
    /\ Sleep(c)
    /\ UNCHANGED <<createEthApp, app, opens, live, ctransport, csigner, cerror>>
    /\ UNCHANGED <<signerVars, retryVars, concurrentVars, parserVars, signingVars>>

\* CreateReady with the liveness check issued again on the existing handle.
CreateReadyRechecks(c) ==
    /\ Entering(c)
    /\ createEthApp
    /\ app # Undefined
    /\ cobserved' = [cobserved EXCEPT ![c] = "Ready"]
    /\ live' = [live EXCEPT ![app] = "inflight"]
    /\ cpc' = [cpc EXCEPT ![c] = "checking"]
    /\ UNCHANGED <<createEthApp, app, opens, ci, ctransport, csleep, csigner, cerror>>
    /\ UNCHANGED <<signerVars, retryVars, concurrentVars, parserVars, signingVars>>

\* Neither branch taken: straight to the `return`.
CreateReady(c) ==
    /\ Entering(c)
    /\ createEthApp
    /\ app # Undefined
    /\ cobserved' = [cobserved EXCEPT ![c] = "Ready"]
    /\ UNCHANGED <<createEthApp, app, opens, live>>
    /\ ReturnSigner(c)
    /\ UNCHANGED <<ci, ctransport, csleep, cerror>>
    /\ UNCHANGED <<signerVars, retryVars, concurrentVars, parserVars, signingVars>>

\* Transport.open resolves: `this.app = new Eth(transport)` and then
\* `await this.app.getAppConfiguration()` is issued.
OpenResolve(c) ==
    /\ cpc[c] = "opening"
    /\ app' = ctransport[c]
    /\ live' = [live EXCEPT ![ctransport[c]] = "inflight"]
    /\ cpc' = [cpc EXCEPT ![c] = "checking"]
    /\ UNCHANGED <<createEthApp, opens, ci, ctransport, csleep, cobserved, csigner, cerror>>
    /\ UNCHANGED <<signerVars, retryVars, concurrentVars, parserVars, signingVars>>

\* OpenReject with the claim on the session given back.
OpenRejectReleasesClaim(c) ==
    /\ cpc[c] = "opening"
    /\ createEthApp' = FALSE
    /\ Throw(c, "TransportOpenError")
    /\ UNCHANGED <<app, opens, live, ci, ctransport, csleep, cobserved, csigner>>
    /\ UNCHANGED <<signerVars, retryVars, concurrentVars, parserVars, signingVars>>

\* Transport.open rejects: create() rejects with the transport's error.
OpenReject(c) ==
    /\ cpc[c] = "opening"
    /\ Throw(c, "TransportOpenError")
    /\ UNCHANGED <<createEthApp, app, opens, live, ci, ctransport, csleep, cobserved, csigner>>
    /\ UNCHANGED <<signerVars, retryVars, concurrentVars, parserVars, signingVars>>

\* getAppConfiguration() resolves: fall through to the `return`.
CheckResolve(c) ==
    /\ cpc[c] = "checking"
    /\ live' = [live EXCEPT ![app] = "ok"]
    /\ UNCHANGED <<createEthApp, app, opens>>
    /\ ReturnSigner(c)
    /\ UNCHANGED <<ci, ctransport, csleep, cobserved, cerror>>
    /\ UNCHANGED <<signerVars, retryVars, concurrentVars, parserVars, signingVars>>

\* CheckReject with the session torn down again on a failed check.
CheckRejectResets(c) ==
    /\ cpc[c] = "checking"
    /\ live' = [live EXCEPT ![app] = "failed"]
    /\ app' = Undefined
    /\ createEthApp' = FALSE
    /\ Throw(c, "DeviceError")
    /\ UNCHANGED <<opens, ci, ctransport, csleep, cobserved, csigner>>
    /\ UNCHANGED <<signerVars, retryVars, concurrentVars, parserVars, signingVars>>

\* getAppConfiguration() rejects: create() rejects with the device's error.
CheckReject(c) ==
    /\ cpc[c] = "checking"
    /\ live' = [live EXCEPT ![app] = "failed"]
    /\ Throw(c, "DeviceError")
    /\ UNCHANGED <<createEthApp, app, opens, ci, ctransport, csleep, cobserved, csigner>>
    /\ UNCHANGED <<signerVars, retryVars, concurrentVars, parserVars, signingVars>>

\* PollWake with the two tests of the loop body in the other order.
PollWakeTimeoutFirst(c) ==
    /\ cpc[c] = "sleeping"
    /\ UNCHANGED <<createEthApp, app, opens, live, ctransport, cobserved>>
    /\ IF ci[c] = PollLast
       THEN /\ Throw(c, TimedOutMsg)
            /\ ci' = [ci EXCEPT ![c] = 0]
            /\ Awake(c)
            /\ UNCHANGED csigner
       ELSE IF app # Undefined
       THEN /\ ReturnSigner(c)
            /\ ci' = [ci EXCEPT ![c] = 0]
            /\ Awake(c)
            /\ UNCHANGED cerror
       ELSE /\ ci' = [ci EXCEPT ![c] = @ + 1]
            /\ Sleep(c)
            /\ UNCHANGED <<csigner, cerror>>
    /\ UNCHANGED <<signerVars, retryVars, concurrentVars, parserVars, signingVars>>

\* sleep(100) resolves inside the polling loop:
\*   if (this.app !== undefined) break;
\*   if (i === 1199) throw new Error("Timed out ...");
\* then `i++`, the loop test `i < 1200`, and the next sleep.  The loop
\* variable goes out of scope when the loop is left.
PollWake(c) ==
    /\ cpc[c] = "sleeping"
    /\ UNCHANGED <<createEthApp, app, opens, live, ctransport, cobserved>>
    /\ IF app # Undefined
       THEN /\ ReturnSigner(c)
            /\ ci' = [ci EXCEPT ![c] = 0]
            /\ Awake(c)
            /\ UNCHANGED cerror
       ELSE IF ci[c] = PollLast
       THEN /\ Throw(c, TimedOutMsg)
            /\ ci' = [ci EXCEPT ![c] = 0]
            /\ Awake(c)
            /\ UNCHANGED csigner
       ELSE IF ci[c] + 1 < PollLimit
       THEN /\ ci' = [ci EXCEPT ![c] = @ + 1]
            /\ Sleep(c)
            /\ UNCHANGED <<csigner, cerror>>
       ELSE /\ ReturnSigner(c)
            /\ ci' = [ci EXCEPT ![c] = 0]
            /\ Awake(c)
            /\ UNCHANGED cerror
    /\ UNCHANGED <<signerVars, retryVars, concurrentVars, parserVars, signingVars>>

SessionNext ==
    \E c \in Callers :
        \/ CreateClaim(c)
        \/ CreateWait(c)
        \/ CreateReady(c)
        \/ OpenResolve(c)
        \/ OpenReject(c)
        \/ CheckResolve(c)
        \/ CheckReject(c)
        \/ PollWake(c)

SessionSpec == SessionInit /\ [][SessionNext]_vars

(***************************************************************************)
(* retry(container, errorHook)(operation) and the signer methods that run  *)
(* their device operations through it.                                     *)
(***************************************************************************)

\* A session as create() leaves it once the first caller holds its signer.
SessionReady ==
    /\ createEthApp = TRUE
    /\ app = 1
    /\ opens = 1
    /\ live = [h \in Handles |-> IF h = 1 THEN "ok" ELSE "none"]
    /\ cpc = [c \in Callers |-> IF c = 1 THEN "returned" ELSE "idle"]
    /\ ci = [c \in Callers |-> 0]
    /\ ctransport = [c \in Callers |-> IF c = 1 THEN 1 ELSE Undefined]
    /\ csleep = [c \in Callers |-> 0]
    /\ cobserved = [c \in Callers |-> IF c = 1 THEN "Uninitialized" ELSE "none"]
    /\ csigner = [c \in Callers |-> IF c = 1 THEN 1 ELSE Undefined]
    /\ cerror = [c \in Callers |-> "none"]

RetryInit ==
    /\ SessionReady
    /\ smodule \in Modules
    /\ SignerIdle
    /\ RetryIdle
    /\ ConcurrentIdle
    /\ ParserIdle
    /\ SigningIdle

\* The execute call is over and its frame is gone.
EndExecute ==
    /\ rpc' = "idle"
    /\ rhook' = "undefined"
    /\ ri' = 0
    /\ rapp' = Undefined
    /\ rsleep' = 0
    /\ rinvocations' = 0
    /\ rpauses' = 0
    /\ rhookcalls' = 0
    /\ rhookarg' = NoOutcome
    /\ rbusy' = 0
    /\ rlast' = NoOutcome
    /\ rresult' = NoOutcome

\* Invoke on the value the container held when the executor was built.
InvokeCapturedApp ==
    /\ rpc' = "invoking"
    /\ rapp' = Undefined
    /\ rinvocations' = rinvocations + 1

\* `const result = await operation(container.app)`: the operation is invoked
\* on the handle the container holds now.
Invoke ==
    /\ rpc' = "invoking"
    /\ rapp' = app
    /\ rinvocations' = rinvocations + 1

\* The executor is called: `for (let i = 0; ...` and the first invocation.
BeginExecute(h) ==
    /\ rhook' = h
    /\ ri' = 0
    /\ rpc' = "invoking"
    /\ rapp' = app
    /\ rinvocations' = 1
    /\ rsleep' = 0
    /\ rpauses' = 0
    /\ rhookcalls' = 0
    /\ rhookarg' = NoOutcome
    /\ rbusy' = 0
    /\ rlast' = NoOutcome
    /\ rresult' = NoOutcome

\* No signer call is pending.
CallFinished == spc \in {"idle", "returned", "threw"}

\* The executor of ledger-signer-common called on its own, built with hook h.
Execute(h) ==
    /\ smodule = "common"
    /\ CallFinished
    /\ spc' = "awaiting"
    /\ sop' = "execute"
    /\ spath' = "none"
    /\ sphase' = "single"
    /\ sresult' = NoOutcome
    /\ soperations' = <<[name |-> "operation"]>>
    /\ BeginExecute(h)
    /\ UNCHANGED <<smodule, addressCache, cacheWrites, sessionVars, callerVars, concurrentVars, parserVars, signingVars>>

\* getAddress(): `if (cachedAddress !== undefined) return cachedAddress`.
GetAddressCached(p) ==
    /\ smodule \in Signers
    /\ CallFinished
    /\ addressCache[p] # NoValue
    /\ spc' = "returned"
    /\ sop' = "getAddress"
    /\ spath' = p
    /\ sphase' = "single"
    /\ sresult' = Val(addressCache[p])
    /\ soperations' = <<>>
    /\ UNCHANGED <<smodule, addressCache, cacheWrites, retryVars, sessionVars, callerVars, concurrentVars, parserVars, signingVars>>

\* SignerCall whose getAddress does not consult the cache.
SignerCallIgnoresCache(op, p) ==
    /\ smodule \in Signers
    /\ op \in OpsOf(smodule)
    /\ CallFinished
    /\ spc' = "awaiting"
    /\ sop' = op
    /\ spath' = p
    /\ sphase' = IF op = "signTypedData" THEN "direct" ELSE "single"
    /\ sresult' = NoOutcome
    /\ soperations' = <<DeviceOperation(smodule, op, p)>>
    /\ BeginExecute(HookOf(smodule))
    /\ UNCHANGED <<smodule, addressCache, cacheWrites, sessionVars, callerVars, concurrentVars, parserVars, signingVars>>

\* A signer method up to its `await LedgerSigner.retry((eth) => ...)`.
SignerCall(op, p) ==
    /\ smodule \in Signers
    /\ op \in OpsOf(smodule)
    /\ CallFinished
    /\ op = "getAddress" => addressCache[p] = NoValue
    /\ spc' = "awaiting"
    /\ sop' = op
    /\ spath' = p
    /\ sphase' = IF op = "signTypedData" THEN "direct" ELSE "single"
    /\ sresult' = NoOutcome
    /\ soperations' = <<DeviceOperation(smodule, op, p)>>
    /\ BeginExecute(HookOf(smodule))
    /\ UNCHANGED <<smodule, addressCache, cacheWrites, sessionVars, callerVars, concurrentVars, parserVars, signingVars>>

\* The operation resolves: `return result`.
OperationResolves(v) ==
    /\ rpc = "invoking"
    /\ rlast' = Val(Raw(v))
    /\ rresult' = Val(Raw(v))
    /\ rpc' = "returned"
    /\ UNCHANGED <<rhook, ri, rapp, rsleep, rinvocations, rpauses, rhookcalls, rhookarg, rbusy>>
    /\ UNCHANGED <<signerVars, sessionVars, callerVars, concurrentVars, parserVars, signingVars>>

\* The catch block of retry() before the hook is consulted: the failed
\* attempt is on record.
Caught(e) ==
    /\ rpc = "invoking"
    /\ rlast' = e
    /\ rbusy' = IF e.id = BusyId THEN rbusy + 1 ELSE rbusy
    /\ UNCHANGED <<rhook, ri, rapp, rinvocations>>
    /\ UNCHANGED <<signerVars, sessionVars, callerVars, concurrentVars, parserVars, signingVars>>

\* `errorHook(error)` is called.
CallHook(e) ==
    /\ rhookcalls' = rhookcalls + 1
    /\ rhookarg' = e

\* execute rejects with error err.
ExecuteThrows(err) ==
    /\ rpc' = "threw"
    /\ rresult' = err
    /\ UNCHANGED <<rsleep, rpauses>>

\* `await sleep(100)` at the end of the loop body.
RetrySleep ==
    /\ rpc' = "sleeping"
    /\ rsleep' = SleepMs
    /\ rpauses' = rpauses + 1
    /\ UNCHANGED rresult

\* OperationRejects with the busy test ahead of the hook: busy errors are
\* retried without the hook seeing them.
OperationRejectsClassifiesFirst(e) ==
    /\ Caught(e)
    /\ IF e.id = BusyId
       THEN /\ RetrySleep
            /\ UNCHANGED <<rhookcalls, rhookarg>>
       ELSE /\ IF rhook # "undefined" THEN CallHook(e) ELSE UNCHANGED <<rhookcalls, rhookarg>>
            /\ IF rhook # "undefined" /\ HookThrows(rhook, e)
               THEN ExecuteThrows(HookError(rhook, e))
               ELSE ExecuteThrows(e)

\* OperationRejects with every error treated as transient.
OperationRejectsRetriesAll(e) ==
    /\ Caught(e)
    /\ IF rhook # "undefined" THEN CallHook(e) ELSE UNCHANGED <<rhookcalls, rhookarg>>
    /\ IF rhook # "undefined" /\ HookThrows(rhook, e)
       THEN ExecuteThrows(HookError(rhook, e))
       ELSE RetrySleep

\* OperationRejects with the busy error rethrown on the last attempt.
OperationRejectsRethrowsLast(e) ==
    /\ Caught(e)
    /\ IF rhook # "undefined" THEN CallHook(e) ELSE UNCHANGED <<rhookcalls, rhookarg>>
    /\ IF rhook # "undefined" /\ HookThrows(rhook, e)
       THEN ExecuteThrows(HookError(rhook, e))
       ELSE IF e.id # BusyId \/ ri = RetryLimit - 1
       THEN ExecuteThrows(e)
       ELSE RetrySleep

\* OperationRejects that goes on to the next attempt without `await sleep(100)`.
OperationRejectsNoPause(e) ==
    /\ rpc = "invoking"
    /\ rlast' = e
    /\ rbusy' = IF e.id = BusyId THEN rbusy + 1 ELSE rbusy
    /\ IF rhook # "undefined" THEN CallHook(e) ELSE UNCHANGED <<rhookcalls, rhookarg>>
    /\ IF rhook # "undefined" /\ HookThrows(rhook, e)
       THEN ExecuteThrows(HookError(rhook, e)) /\ UNCHANGED <<ri, rapp, rinvocations>>
       ELSE IF e.id # BusyId
       THEN ExecuteThrows(e) /\ UNCHANGED <<ri, rapp, rinvocations>>
       ELSE IF ri + 1 < RetryLimit
       THEN /\ ri' = ri + 1
            /\ Invoke
            /\ UNCHANGED <<rsleep, rpauses, rresult>>
       ELSE /\ ri' = ri + 1
            /\ ExecuteThrows(TimeoutError)
            /\ UNCHANGED <<rapp, rinvocations>>
    /\ UNCHANGED rhook
    /\ UNCHANGED <<signerVars, sessionVars, callerVars, concurrentVars, parserVars, signingVars>>

\* The operation rejects with e: the catch block, then `await sleep(100)`.
\*   if (errorHook !== undefined) errorHook(error);
\*   if (error?.id !== "TransportLocked") throw error;
OperationRejects(e) ==
    /\ Caught(e)
    /\ IF rhook # "undefined" THEN CallHook(e) ELSE UNCHANGED <<rhookcalls, rhookarg>>
    /\ IF rhook # "undefined" /\ HookThrows(rhook, e)
       THEN ExecuteThrows(HookError(rhook, e))
       ELSE IF e.id # BusyId
       THEN ExecuteThrows(e)
       ELSE RetrySleep

\* RetryWake with a budget one attempt short.
RetryWakeShortBudget ==
    /\ rpc = "sleeping"
    /\ rsleep' = 0
    /\ ri' = ri + 1
    /\ IF ri + 1 < RetryLimit - 1
       THEN /\ Invoke
            /\ UNCHANGED rresult
       ELSE /\ rpc' = "threw"
            /\ rresult' = TimeoutError
            /\ UNCHANGED <<rapp, rinvocations>>
    /\ UNCHANGED <<rhook, rpauses, rhookcalls, rhookarg, rbusy, rlast>>
    /\ UNCHANGED <<signerVars, sessionVars, callerVars, concurrentVars, parserVars, signingVars>>

\* RetryWake that ends with the error of the initialization wait.
RetryWakeInitMessage ==
    /\ rpc = "sleeping"
    /\ rsleep' = 0
    /\ ri' = ri + 1
    /\ IF ri + 1 < RetryLimit
       THEN /\ Invoke
            /\ UNCHANGED rresult
       ELSE /\ rpc' = "threw"
            /\ rresult' = Err("none", 0, TimedOutMsg)
            /\ UNCHANGED <<rapp, rinvocations>>
    /\ UNCHANGED <<rhook, rpauses, rhookcalls, rhookarg, rbusy, rlast>>
    /\ UNCHANGED <<signerVars, sessionVars, callerVars, concurrentVars, parserVars, signingVars>>

\* RetryWake that ends with the error of the last attempt.
RetryWakeRethrowsLast ==
    /\ rpc = "sleeping"
    /\ rsleep' = 0
    /\ ri' = ri + 1
    /\ IF ri + 1 < RetryLimit
       THEN /\ Invoke
            /\ UNCHANGED rresult
       ELSE /\ rpc' = "threw"
            /\ rresult' = rlast
            /\ UNCHANGED <<rapp, rinvocations>>
    /\ UNCHANGED <<rhook, rpauses, rhookcalls, rhookarg, rbusy, rlast>>
    /\ UNCHANGED <<signerVars, sessionVars, callerVars, concurrentVars, parserVars, signingVars>>

\* sleep(100) resolves: `i++`, the loop test `i < 1200`, and either the next
\* invocation or `throw new Error("timeout")`.
RetryWake ==
    /\ rpc = "sleeping"
    /\ rsleep' = 0
    /\ ri' = ri + 1
    /\ IF ri + 1 < RetryLimit
       THEN /\ Invoke
            /\ UNCHANGED rresult
       ELSE /\ rpc' = "threw"
            /\ rresult' = TimeoutError
            /\ UNCHANGED <<rapp, rinvocations>>
    /\ UNCHANGED <<rhook, rpauses, rhookcalls, rhookarg, rbusy, rlast>>
    /\ UNCHANGED <<signerVars, sessionVars, callerVars, concurrentVars, parserVars, signingVars>>

\* The awaiting signer method resumes with the value execute returned:
\* getAddress stores it in the cache, every method returns.
ResumeReturn ==
    /\ spc = "awaiting"
    /\ rpc = "returned"
    /\ spc' = "returned"
    /\ sresult' = Val(CallValue(smodule, sop, rresult.value))
    /\ addressCache' =
          IF sop = "getAddress"
          THEN [addressCache EXCEPT ![spath] = CallValue(smodule, sop, rresult.value)]
          ELSE addressCache
    /\ cacheWrites' =
          IF sop = "getAddress"
          THEN [cacheWrites EXCEPT ![spath] = @ + 1]
          ELSE cacheWrites
    /\ EndExecute
    /\ UNCHANGED <<smodule, sop, spath, sphase, soperations>>
    /\ UNCHANGED <<sessionVars, callerVars, concurrentVars, parserVars, signingVars>>

\* ResumeThrow with a failed lookup remembered in the address cache.
ResumeThrowCachesFailure ==
    /\ spc = "awaiting"
    /\ rpc = "threw"
    /\ ~(sphase = "direct" /\ rresult.statusCode = UnsupportedStatus)
    /\ spc' = "threw"
    /\ sresult' = rresult
    /\ addressCache' =
          IF sop = "getAddress"
          THEN [addressCache EXCEPT ![spath] = [form |-> "rejected", payload |-> "none"]]
          ELSE addressCache
    /\ EndExecute
    /\ UNCHANGED <<smodule, sop, spath, sphase, soperations, cacheWrites>>
    /\ UNCHANGED <<sessionVars, callerVars, concurrentVars, parserVars, signingVars>>

\* The awaiting signer method resumes with the error execute threw and lets
\* it through; signTypedData's direct path does so for every error but
\* `statusCode === 27904`.
ResumeThrow ==
    /\ spc = "awaiting"
    /\ rpc = "threw"
    /\ ~(sphase = "direct" /\ rresult.statusCode = UnsupportedStatus)
    /\ spc' = "threw"
    /\ sresult' = rresult
    /\ EndExecute
    /\ UNCHANGED <<smodule, sop, spath, sphase, addressCache, soperations, cacheWrites>>
    /\ UNCHANGED <<sessionVars, callerVars, concurrentVars, parserVars, signingVars>>

\* ResumeFallback that runs the direct operation again instead of the hashed one.
ResumeFallbackDirectAgain ==
    /\ spc = "awaiting"
    /\ rpc = "threw"
    /\ sphase = "direct"
    /\ rresult.statusCode = UnsupportedStatus
    /\ sphase' = "direct"
    /\ soperations' = Append(soperations, DeviceOperation(smodule, sop, spath))
    /\ BeginExecute(HookOf(smodule))
    /\ UNCHANGED <<smodule, spc, sop, spath, sresult, addressCache, cacheWrites>>
    /\ UNCHANGED <<sessionVars, callerVars, concurrentVars, parserVars, signingVars>>

\* ResumeFallback taken on every error that carries a status code.
ResumeFallbackAnyStatus ==
    /\ spc = "awaiting"
    /\ rpc = "threw"
    /\ sphase = "direct"
    /\ rresult.statusCode # 0
    /\ sphase' = "fallback"
    /\ soperations' = Append(soperations, HashedOperation(spath))
    /\ BeginExecute(HookOf(smodule))
    /\ UNCHANGED <<smodule, spc, sop, spath, sresult, addressCache, cacheWrites>>
    /\ UNCHANGED <<sessionVars, callerVars, concurrentVars, parserVars, signingVars>>

\* signTypedData's catch block on `statusCode === 27904`: hash the domain and
\* the value, then run signEIP712HashedMessage through the executor.
ResumeFallback ==
    /\ spc = "awaiting"
    /\ rpc = "threw"
    /\ sphase = "direct"
    /\ rresult.statusCode = UnsupportedStatus
    /\ sphase' = "fallback"
    /\ soperations' = Append(soperations, HashedOperation(spath))
    /\ BeginExecute(HookOf(smodule))
    /\ UNCHANGED <<smodule, spc, sop, spath, sresult, addressCache, cacheWrites>>
    /\ UNCHANGED <<sessionVars, callerVars, concurrentVars, parserVars, signingVars>>

RetryNext ==
    \/ \E h \in Hooks : Execute(h)
    \/ \E p \in Paths : GetAddressCached(p)
    \/ \E m \in Signers, p \in Paths : \E op \in OpsOf(m) : SignerCall(op, p)
    \/ \E v \in DeviceValues : OperationResolves(v)
    \/ \E e \in DeviceErrors : OperationRejects(e)
    \/ RetryWake
    \/ ResumeReturn
    \/ ResumeThrow
    \/ ResumeFallback

RetrySpec == RetryInit /\ [][RetryNext]_vars

\* The executor of ledger-signer-common on its own.
ExecuteInit ==
    /\ SessionReady
    /\ smodule = "common"
    /\ SignerIdle
    /\ RetryIdle
    /\ ConcurrentIdle
    /\ ParserIdle
    /\ SigningIdle

\* The invocation of the operation under way terminates.
OperationCompletes ==
    \/ \E v \in DeviceValues : OperationResolves(v)
    \/ \E e \in DeviceErrors : OperationRejects(e)

ExecuteNext ==
    \/ \E h \in Hooks : Execute(h)
    \/ \E v \in DeviceValues : OperationResolves(v)
    \/ \E e \in DeviceErrors : OperationRejects(e)
    \/ RetryWake
    \/ ResumeReturn
    \/ ResumeThrow

\* Every invocation of the operation terminates and every sleep() ends.
ExecuteFairSpec ==
    /\ ExecuteInit
    /\ [][ExecuteNext]_vars
    /\ WF_vars(OperationCompletes)
    /\ WF_vars(RetryWake)

(***************************************************************************)
(* The executor and the session it reads its handle from.  The executor is *)
(* built when its module is loaded (`static retry = retry(this, ...)`),    *)
(* before any create() call: `this.app` is undefined at that time.         *)
(***************************************************************************)

\* No create() call has been made; the executor exists and is idle.
LazyInit ==
    /\ smodule = "common"
    /\ SignerIdle
    /\ RetryIdle
    /\ ConcurrentIdle
    /\ ParserIdle
    /\ SigningIdle
    /\ createEthApp = FALSE
    /\ app = Undefined
    /\ opens = 0
    /\ live = [h \in Handles |-> "none"]
    /\ cpc = [c \in Callers |-> "idle"]
    /\ ci = [c \in Callers |-> 0]
    /\ ctransport = [c \in Callers |-> Undefined]
    /\ csleep = [c \in Callers |-> 0]
    /\ cobserved = [c \in Callers |-> "none"]
    /\ csigner = [c \in Callers |-> Undefined]
    /\ cerror = [c \in Callers |-> "none"]

\* The create() call that opens the transport, and execute calls made
\* before, while and after it does.
LazyNext ==
    \/ \E c \in Callers : CreateClaim(c)
    \/ \E c \in Callers : OpenResolve(c)
    \/ \E c \in Callers : OpenReject(c)
    \/ \E c \in Callers : CheckResolve(c)
    \/ \E c \in Callers : CheckReject(c)
    \/ \E h \in Hooks : Execute(h)
    \/ \E v \in DeviceValues : OperationResolves(v)
    \/ \E e \in DeviceErrors : OperationRejects(e)
    \/ RetryWake
    \/ ResumeReturn
    \/ ResumeThrow

LazySpec == LazyInit /\ [][LazyNext]_vars

(***************************************************************************)
(* Signer calls made concurrently.  The device API accepts one command at  *)
(* a time: a command issued while another is in flight is rejected with    *)
(* the busy sentinel ("`TransportLocked` indicates that a request is being *)
(* processed").  Promise continuations run before any timer or device      *)
(* event, so a call runs from one such event to its next `await` of one    *)
(* in a single step.                                                       *)
(***************************************************************************)

\* Retry-timer firings an accepted command can outlast: it completes well
\* within the retry budget.
CommandPolls == 2

\* The error a command gets when it is issued while another is in flight.
LockedError == Err(BusyId, 0, "device")

\* Errors an accepted command can end with.
CommandErrors == {e \in DeviceErrors : e.id # BusyId}

\* The address the device derives for a path: a function of the path.
DeviceAddress(p) == "payloadA"

\* Calls with a command on the device or a retry timer pending.
Started == 1..Len(job)

\* One pass of the loop body of retry() for call c, from
\* `await operation(container.app)` to the next suspension: the command is
\* accepted, or it is rejected as busy and the catch block runs.
Issue(j, c, dev) ==
    IF dev.owner = 0
    THEN [job |-> [j EXCEPT !.pc = "inflight"], device |-> [owner |-> c, waited |-> 0]]
    ELSE IF HookOf(smodule) # "undefined" /\ HookThrows(HookOf(smodule), LockedError)
    THEN [job |-> [j EXCEPT !.pc = "threw", !.result = HookError(HookOf(smodule), LockedError)],
          device |-> dev]
    ELSE [job |-> [j EXCEPT !.pc = "sleeping"], device |-> dev]

\* Issue with the busy rejection rethrown instead of retried.
JobCallNoRetry(op, p) ==
    /\ smodule \in Signers
    /\ op \in OpsOf(smodule)
    /\ Len(job) < NumCallers
    /\ LET c == Len(job) + 1
           j == [op |-> op, path |-> p, pc |-> "calling", i |-> 0, result |-> NoOutcome,
                 phase |-> IF op = "signTypedData" THEN "direct" ELSE "single"]
       IN  IF op = "getAddress" /\ addressCache[p] # NoValue
           THEN /\ job' = Append(job, [j EXCEPT !.pc = "returned", !.result = Val(addressCache[p])])
                /\ UNCHANGED device
           ELSE IF device.owner = 0
           THEN /\ job' = Append(job, [j EXCEPT !.pc = "inflight"])
                /\ device' = [owner |-> c, waited |-> 0]
           ELSE /\ job' = Append(job, [j EXCEPT !.pc = "threw", !.result = LockedError])
                /\ UNCHANGED device
    /\ UNCHANGED <<smodule, spc, sop, spath, sphase, sresult, addressCache, soperations, cacheWrites>>
    /\ UNCHANGED <<sessionVars, callerVars, retryVars, parserVars, signingVars>>

\* A signer method is called: getAddress returns a cached address at once;
\* otherwise the method runs up to the first suspension of its execute call.
JobCall(op, p) ==
    /\ smodule \in Signers
    /\ op \in OpsOf(smodule)
    /\ Len(job) < NumCallers
    /\ LET c == Len(job) + 1
           j == [op |-> op, path |-> p, pc |-> "calling", i |-> 0, result |-> NoOutcome,
                 phase |-> IF op = "signTypedData" THEN "direct" ELSE "single"]
       IN  IF op = "getAddress" /\ addressCache[p] # NoValue
           THEN /\ job' = Append(job, [j EXCEPT !.pc = "returned", !.result = Val(addressCache[p])])
                /\ UNCHANGED device
           ELSE LET r == Issue(j, c, device) IN
                    /\ job' = Append(job, r.job)
                    /\ device' = r.device
    /\ UNCHANGED <<smodule, spc, sop, spath, sphase, sresult, addressCache, soperations, cacheWrites>>
    /\ UNCHANGED <<sessionVars, callerVars, retryVars, parserVars, signingVars>>

\* JobWake with one loop counter shared by the calls of the executor.
JobWakeSharedCounter(c) ==
    /\ c \in Started
    /\ job[c].pc = "sleeping"
    /\ device.owner = 0 \/ device.waited < CommandPolls
    /\ LET shared == [d \in Started |-> [job[d] EXCEPT !.i = @ + 1]]
           j == shared[c]
           dev == IF device.owner = 0 THEN device ELSE [device EXCEPT !.waited = @ + 1]
       IN  IF j.i < RetryLimit
           THEN LET r == Issue(j, c, dev) IN
                    /\ job' = [shared EXCEPT ![c] = r.job]
                    /\ device' = r.device
           ELSE /\ job' = [shared EXCEPT ![c] = [j EXCEPT !.pc = "threw", !.result = TimeoutError]]
                /\ device' = dev
    /\ UNCHANGED <<sessionVars, callerVars, signerVars, retryVars, parserVars, signingVars>>

\* The retry timer of call c fires: `i++`, `i < 1200`, and the next pass of
\* the loop body or `throw new Error("timeout")`.
JobWake(c) ==
    /\ c \in Started
    /\ job[c].pc = "sleeping"
    /\ device.owner = 0 \/ device.waited < CommandPolls
    /\ LET j == [job[c] EXCEPT !.i = @ + 1]
           dev == IF device.owner = 0 THEN device ELSE [device EXCEPT !.waited = @ + 1]
       IN  IF j.i < RetryLimit
           THEN LET r == Issue(j, c, dev) IN
                    /\ job' = [job EXCEPT ![c] = r.job]
                    /\ device' = r.device
           ELSE /\ job' = [job EXCEPT ![c] = [j EXCEPT !.pc = "threw", !.result = TimeoutError]]
                /\ device' = dev
    /\ UNCHANGED <<sessionVars, callerVars, signerVars, retryVars, parserVars, signingVars>>

\* JobResolves that stores the address only when the entry is missing.
JobResolvesWritesOnce(c, v) ==
    /\ c \in Started
    /\ job[c].pc = "inflight"
    /\ job[c].op = "getAddress" => v = DeviceAddress(job[c].path)
    /\ device' = NoCommand
    /\ LET value == CallValue(smodule, job[c].op, Raw(v))
           writes == job[c].op = "getAddress" /\ addressCache[job[c].path] = NoValue
       IN /\ job' = [job EXCEPT ![c] = [@ EXCEPT !.pc = "returned", !.result = Val(value)]]
          /\ addressCache' =
                IF writes THEN [addressCache EXCEPT ![job[c].path] = value] ELSE addressCache
          /\ cacheWrites' =
                IF writes THEN [cacheWrites EXCEPT ![job[c].path] = @ + 1] ELSE cacheWrites
    /\ UNCHANGED <<smodule, spc, sop, spath, sphase, sresult, soperations>>
    /\ UNCHANGED <<sessionVars, callerVars, retryVars, parserVars, signingVars>>

\* The command of call c completes with value v: the lock is released,
\* execute returns, getAddress stores the address, the method returns.
JobResolves(c, v) ==
    /\ c \in Started
    /\ job[c].pc = "inflight"
    /\ job[c].op = "getAddress" => v = DeviceAddress(job[c].path)
    /\ device' = NoCommand
    /\ LET value == CallValue(smodule, job[c].op, Raw(v)) IN
          /\ job' = [job EXCEPT ![c] = [@ EXCEPT !.pc = "returned", !.result = Val(value)]]
          /\ addressCache' =
                IF job[c].op = "getAddress"
                THEN [addressCache EXCEPT ![job[c].path] = value]
                ELSE addressCache
          /\ cacheWrites' =
                IF job[c].op = "getAddress"
                THEN [cacheWrites EXCEPT ![job[c].path] = @ + 1]
                ELSE cacheWrites
    /\ UNCHANGED <<smodule, spc, sop, spath, sphase, sresult, soperations>>
    /\ UNCHANGED <<sessionVars, callerVars, retryVars, parserVars, signingVars>>

\* JobRejects that drops the cache entry of the path when a lookup fails.
JobRejectsInvalidates(c, e) ==
    /\ c \in Started
    /\ job[c].pc = "inflight"
    /\ LET hook == HookOf(smodule)
           err == IF hook # "undefined" /\ HookThrows(hook, e) THEN HookError(hook, e) ELSE e
       IN  IF job[c].phase = "direct" /\ err.statusCode = UnsupportedStatus
           THEN /\ job' = [job EXCEPT ![c] = [@ EXCEPT !.phase = "fallback", !.i = 0, !.pc = "inflight"]]
                /\ device' = [owner |-> c, waited |-> 0]
                /\ UNCHANGED addressCache
           ELSE /\ job' = [job EXCEPT ![c] = [@ EXCEPT !.pc = "threw", !.result = err]]
                /\ device' = NoCommand
                /\ addressCache' =
                      IF job[c].op = "getAddress"
                      THEN [addressCache EXCEPT ![job[c].path] = NoValue]
                      ELSE addressCache
    /\ UNCHANGED <<smodule, spc, sop, spath, sphase, sresult, soperations, cacheWrites>>
    /\ UNCHANGED <<sessionVars, callerVars, retryVars, parserVars, signingVars>>

\* The command of call c fails with e: the lock is released, the catch block
\* of retry() runs the hook and rethrows; signTypedData's direct path goes on
\* to the hashed operation on status code 27904, every other method rejects.
JobRejects(c, e) ==
    /\ c \in Started
    /\ job[c].pc = "inflight"
    /\ LET hook == HookOf(smodule)
           err == IF hook # "undefined" /\ HookThrows(hook, e) THEN HookError(hook, e) ELSE e
       IN  IF job[c].phase = "direct" /\ err.statusCode = UnsupportedStatus
           THEN /\ job' = [job EXCEPT ![c] = [@ EXCEPT !.phase = "fallback", !.i = 0, !.pc = "inflight"]]
                /\ device' = [owner |-> c, waited |-> 0]
           ELSE /\ job' = [job EXCEPT ![c] = [@ EXCEPT !.pc = "threw", !.result = err]]
                /\ device' = NoCommand
    /\ UNCHANGED <<signerVars, sessionVars, callerVars, retryVars, parserVars, signingVars>>

ConcurrentInit ==
    /\ SessionReady
    /\ smodule \in Signers
    /\ SignerIdle
    /\ RetryIdle
    /\ ConcurrentIdle
    /\ ParserIdle
    /\ SigningIdle

ConcurrentNext ==
    \/ \E m \in Signers, p \in Paths : \E op \in OpsOf(m) : JobCall(op, p)
    \/ \E c \in Callers : JobWake(c)
    \/ \E c \in Callers : \E v \in DeviceValues : JobResolves(c, v)
    \/ \E c \in Callers : \E e \in CommandErrors : JobRejects(c, e)

ConcurrentSpec == ConcurrentInit /\ [][ConcurrentNext]_vars

\* The accepted command of call c completes successfully.
CommandCompletes(c) == \E v \in DeviceValues : JobResolves(c, v)

\* Concurrent calls on a device whose only rejections are busy rejections.
ContentionNext ==
    \/ \E m \in Signers, p \in Paths : \E op \in OpsOf(m) : JobCall(op, p)
    \/ \E c \in Callers : JobWake(c)
    \/ \E c \in Callers : \E v \in DeviceValues : JobResolves(c, v)

\* Retry timers fire and accepted commands complete.
ConcurrentFairSpec ==
    /\ ConcurrentInit
    /\ [][ContentionNext]_vars
    /\ \A c \in Callers : WF_vars(JobWake(c)) /\ WF_vars(CommandCompletes(c))

(***************************************************************************)
(* parseBip32Path (ledger-signer-common) and the first statement of the    *)
(* signers' create(path).  Strings are sequences of characters.  Numbers   *)
(* that may pass 2^31 are kept as two 16-bit halves.                       *)
(***************************************************************************)

\* Longest path string drawn from PathAlphabet.
MaxPathLen == 5

\* Most segments of a path built from SegmentNumbers.
MaxSegments == 2

\* 2^16: a uint32 is hi * Half + lo.
Half == 65536

\* `const HARDENED_OFFSET = 0x80000000`, as hi * 2^16 + lo.
HARDENED_OFFSET == [hi |-> 32768, lo |-> 0, wide |-> FALSE]

\* Number.MAX_SAFE_INTEGER = 9007199254740991, in decimal digits.
MaxSafeInteger ==
    <<"9", "0", "0", "7", "1", "9", "9", "2", "5", "4", "7", "4", "0", "9", "9", "1">>

Digits == {"0", "1", "2", "3", "4", "5", "6", "7", "8", "9"}

DigitValue(ch) ==
    CASE ch = "0" -> 0 [] ch = "1" -> 1 [] ch = "2" -> 2 [] ch = "3" -> 3
      [] ch = "4" -> 4 [] ch = "5" -> 5 [] ch = "6" -> 6 [] ch = "7" -> 7
      [] ch = "8" -> 8 [] ch = "9" -> 9

\* `const defaultPath = "m/44'/60'/0'/0/0"`.
defaultPath ==
    <<"m", "/", "4", "4", "'", "/", "6", "0", "'", "/", "0", "'", "/", "0", "/", "0">>

\* The path format the Solana signer documents and its test passes:
\* `44'/501'/0'/0'`, without the root marker.
SolanaDocumentedPath ==
    <<"4", "4", "'", "/", "5", "0", "1", "'", "/", "0", "'", "/", "0", "'">>

\* `/^m/.test(path)`.
StartsWithRoot(path) == Len(path) >= 1 /\ path[1] = "m"

\* `/^m$/.test(path)`.
IsRoot(path) == path = <<"m">>

\* `path.replace(/^m\//, '')`.
StripRoot(path) ==
    IF Len(path) >= 2 /\ path[1] = "m" /\ path[2] = "/"
    THEN SubSeq(path, 3, Len(path))
    ELSE path

\* `normalized.split('/')`: the pieces between separators, empty pieces
\* included; never an empty list.
RECURSIVE SplitFrom(_, _, _, _)
SplitFrom(s, i, piece, done) ==
    IF i > Len(s) THEN Append(done, piece)
    ELSE IF s[i] = "/" THEN SplitFrom(s, i + 1, <<>>, Append(done, piece))
    ELSE SplitFrom(s, i + 1, Append(piece, s[i]), done)

Split(s) == SplitFrom(s, 1, <<>>, <<>>)

AllDigits(s) == \A k \in 1..Len(s) : s[k] \in Digits

\* SegmentMatches with `\d*` in place of `\d+`.
SegmentMatchesNoDigits(segment) ==
    \/ AllDigits(segment)
    \/ /\ Len(segment) >= 1
       /\ segment[Len(segment)] = "'"
       /\ AllDigits(SubSeq(segment, 1, Len(segment) - 1))

\* `/^(\d+)('?)$/.exec(segment)`: whether the segment matches.
SegmentMatches(segment) ==
    \/ Len(segment) >= 1 /\ AllDigits(segment)
    \/ /\ Len(segment) >= 2
       /\ segment[Len(segment)] = "'"
       /\ AllDigits(SubSeq(segment, 1, Len(segment) - 1))

\* `m[2] === "'"`.
IsHardened(segment) == Len(segment) >= 1 /\ segment[Len(segment)] = "'"

\* `m[1]`: the digits of a matching segment.
SegmentDigits(segment) ==
    IF IsHardened(segment) THEN SubSeq(segment, 1, Len(segment) - 1) ELSE segment

\* Decimal digits without their leading zeros.
RECURSIVE StripZeros(_)
StripZeros(d) ==
    IF Len(d) > 1 /\ d[1] = "0" THEN StripZeros(Tail(d)) ELSE d

\* a < b for equally long digit strings.
RECURSIVE DigitsLess(_, _)
DigitsLess(a, b) ==
    IF Len(a) = 0 THEN FALSE
    ELSE IF a[1] # b[1] THEN DigitValue(a[1]) < DigitValue(b[1])
    ELSE DigitsLess(Tail(a), Tail(b))

\* `Number.isSafeInteger(+m1)`: the digits denote a value of at most 2^53 - 1
\* (a larger one converts to a double of at least 2^53).
IsSafeInteger(d) ==
    LET c == StripZeros(d) IN
        \/ Len(c) < Len(MaxSafeInteger)
        \/ Len(c) = Len(MaxSafeInteger) /\ ~DigitsLess(MaxSafeInteger, c)

\* `+m1`: the value of the digits as hi * 2^16 + lo; `wide` once it has
\* passed 2^32 - 1.
RECURSIVE ToNumber(_, _)
ToNumber(d, acc) ==
    IF Len(d) = 0 THEN acc
    ELSE LET low == acc.lo * 10 + DigitValue(d[1])
             high == acc.hi * 10 + (low \div Half)
         IN  ToNumber(Tail(d),
                      IF acc.wide \/ high >= Half
                      THEN [hi |-> 0, lo |-> 0, wide |-> TRUE]
                      ELSE [hi |-> high, lo |-> low % Half, wide |-> FALSE])

\* AtLeastOffset with `>` in place of `>=`.
AboveOffset(idx) ==
    idx.wide \/ idx.hi > HARDENED_OFFSET.hi \/ (idx.hi = HARDENED_OFFSET.hi /\ idx.lo > HARDENED_OFFSET.lo)

\* `idx >= HARDENED_OFFSET`.
AtLeastOffset(idx) == idx.wide \/ idx.hi >= HARDENED_OFFSET.hi

\* `idx += HARDENED_OFFSET`.
AddOffset(idx) ==
    [hi |-> idx.hi + HARDENED_OFFSET.hi, lo |-> idx.lo + HARDENED_OFFSET.lo, wide |-> idx.wide]

ParseError(msg) == [kind |-> "error", message |-> msg]

\* SegmentIndex with the range test left to Number.isSafeInteger.
SegmentIndexSafeOnly(segment) ==
    IF ~SegmentMatches(segment)
    THEN ParseError("Invalid child index")
    ELSE LET idx == ToNumber(SegmentDigits(segment), [hi |-> 0, lo |-> 0, wide |-> FALSE]) IN
         IF ~IsSafeInteger(SegmentDigits(segment))
         THEN ParseError("Node index out of range")
         ELSE [kind |-> "index",
               value |-> IF IsHardened(segment) THEN AddOffset(idx) ELSE idx]

\* The callback of `parts.map`: the index of one segment, or the error it throws.
SegmentIndex(segment) ==
    IF ~SegmentMatches(segment)
    THEN ParseError("Invalid child index")
    ELSE LET idx == ToNumber(SegmentDigits(segment), [hi |-> 0, lo |-> 0, wide |-> FALSE]) IN
         IF ~IsSafeInteger(SegmentDigits(segment)) \/ AtLeastOffset(idx)
         THEN ParseError("Node index out of range")
         ELSE [kind |-> "index",
               value |-> IF IsHardened(segment) THEN AddOffset(idx) ELSE idx]

\* `parts.map(...)`: the indices in segment order; the first segment that
\* throws ends the call.
RECURSIVE MapSegments(_, _, _)
MapSegments(parts, k, indices) ==
    IF k > Len(parts) THEN [kind |-> "indices", value |-> indices]
    ELSE LET r == SegmentIndex(parts[k]) IN
         IF r.kind = "error" THEN r
         ELSE MapSegments(parts, k + 1, Append(indices, r.value))

\* parseBip32Path without the case of the bare root marker.
parseBip32PathNoRootCase(path) ==
    IF ~StartsWithRoot(path)
    THEN ParseError("Path must start with \"m\"")
    ELSE LET normalized == StripRoot(path)
             mapped == MapSegments(Split(normalized), 1, <<>>)
         IN  IF mapped.kind = "error" THEN mapped
             ELSE [kind |-> "ok", normalized |-> normalized, indices |-> mapped.value]

\* parseBip32Path returning the path as given for its normalized form.
parseBip32PathKeepsRoot(path) ==
    IF ~StartsWithRoot(path)
    THEN ParseError("Path must start with \"m\"")
    ELSE IF IsRoot(path)
    THEN [kind |-> "ok", normalized |-> <<>>, indices |-> <<>>]
    ELSE LET normalized == StripRoot(path)
             mapped == MapSegments(Split(normalized), 1, <<>>)
         IN  IF mapped.kind = "error" THEN mapped
             ELSE [kind |-> "ok", normalized |-> path, indices |-> mapped.value]

\* parseBip32Path with the root marker optional.
parseBip32PathRootOptional(path) ==
    IF IsRoot(path)
    THEN [kind |-> "ok", normalized |-> <<>>, indices |-> <<>>]
    ELSE LET normalized == StripRoot(path)
             mapped == MapSegments(Split(normalized), 1, <<>>)
         IN  IF mapped.kind = "error" THEN mapped
             ELSE [kind |-> "ok", normalized |-> normalized, indices |-> mapped.value]

\* parseBip32Path(path): `{ normalized, indices }` or the error thrown.
parseBip32Path(path) ==
    IF ~StartsWithRoot(path)
    THEN ParseError("Path must start with \"m\"")
    ELSE IF IsRoot(path)
    THEN [kind |-> "ok", normalized |-> <<>>, indices |-> <<>>]
    ELSE LET normalized == StripRoot(path)
             mapped == MapSegments(Split(normalized), 1, <<>>)
         IN  IF mapped.kind = "error" THEN mapped
             ELSE [kind |-> "ok", normalized |-> normalized, indices |-> mapped.value]

\* Characters of the short path strings.
PathAlphabet == {"m", "/", "'", "0", "7"}

\* Every string over PathAlphabet of length n.
RECURSIVE StringsOfLength(_)
StringsOfLength(n) ==
    IF n = 0 THEN {<<>>}
    ELSE {Append(s, ch) : s \in StringsOfLength(n - 1), ch \in PathAlphabet}

\* Segment values around the range limits: 0, 44, 007, 2^31 - 1, 2^31,
\* 2^32 - 1, 2^32, 2^53 + 1.
SegmentNumbers ==
    { <<"0">>, <<"4", "4">>, <<"0", "0", "7">>,
      <<"2", "1", "4", "7", "4", "8", "3", "6", "4", "7">>,
      <<"2", "1", "4", "7", "4", "8", "3", "6", "4", "8">>,
      <<"4", "2", "9", "4", "9", "6", "7", "2", "9", "5">>,
      <<"4", "2", "9", "4", "9", "6", "7", "2", "9", "6">>,
      <<"9", "0", "0", "7", "1", "9", "9", "2", "5", "4", "7", "4", "0", "9", "9", "3">> }

Segments == SegmentNumbers \cup {Append(n, "'") : n \in SegmentNumbers}

\* Paths of exactly n segments, without root marker.
RECURSIVE PathsOfSegments(_)
PathsOfSegments(n) ==
    IF n = 1 THEN Segments
    ELSE {p \o <<"/">> \o s : p \in PathsOfSegments(n - 1), s \in Segments}

\* Decimal digits of the account, change and address levels.
LevelNumbers == {<<"0">>, <<"7">>, <<"4", "4">>}

\* m/44'/60'/a'/c/d and its prefixes of three and four levels.
Bip44Paths ==
    LET base == <<"m", "/", "4", "4", "'", "/", "6", "0", "'", "/">> IN
        {base \o a \o <<"'">> : a \in LevelNumbers}
            \cup {base \o a \o <<"'", "/">> \o c : a, c \in LevelNumbers}
            \cup {base \o a \o <<"'", "/">> \o c \o <<"/">> \o d : a, c, d \in LevelNumbers}

\* Segments with a sign, a hardened marker other than the apostrophe, a
\* doubled marker, a base prefix, an exponent, a fraction or a blank.
OddSegments ==
    { <<"-", "1">>, <<"+", "1">>, <<"4", "4", "h">>, <<"4", "4", "H">>,
      <<"4", "4", "'", "'">>, <<"0", "x", "1", "0">>, <<"1", "e", "3">>,
      <<"1", ".", "0">>, <<" ", "1">>, <<"1", " ">>, <<"4", "4", "\"">> }

\* m/44'/s and m/s/0 for the odd segments s, and m44' without separator.
OddPaths ==
    {<<"m", "/", "4", "4", "'", "/">> \o seg : seg \in OddSegments}
        \cup {<<"m", "/">> \o seg \o <<"/", "0">> : seg \in OddSegments}
        \cup {<<"m", "4", "4", "'">>}

\* The paths given to parseBip32Path and create().
PathInputs ==
    UNION {StringsOfLength(n) : n \in 0..MaxPathLen}
        \cup UNION {PathsOfSegments(n) : n \in 1..MaxSegments}
        \cup {<<"m", "/">> \o p : p \in UNION {PathsOfSegments(n) : n \in 1..MaxSegments}}
        \cup {defaultPath, SolanaDocumentedPath, StripRoot(defaultPath),
              <<"m", "/">> \o SolanaDocumentedPath}
        \cup Bip44Paths
        \cup OddPaths

\* Signers whose create() is over once the session is Ready (LedgerAccount's
\* goes on to getAccount).
CreateModules == {"ethers-v5", "ethers-v6", "solana"}

\* `enum Bip44PathIndices { Account = 2, Address = 3, Change = 4 }`.
Bip44PathIndices == [Account |-> 2, Address |-> 3, Change |-> 4]

\* `path.indices[k]` of a zero-based array, guarded by `k < path.indices.length`;
\* the field stays undefined otherwise.
IndexAt(indices, k) ==
    IF k < Len(indices) THEN [set |-> TRUE, index |-> indices[k + 1]]
    ELSE [set |-> FALSE, index |-> [hi |-> 0, lo |-> 0, wide |-> FALSE]]

\* The constructor of LedgerAccount: path and the three HD fields.
LedgerAccount(path) ==
    [kind |-> "account",
     path |-> path.normalized,
     accountIndex |-> IndexAt(path.indices, Bip44PathIndices.Account),
     addressIndex |-> IndexAt(path.indices, Bip44PathIndices.Address),
     changeIndex |-> IndexAt(path.indices, Bip44PathIndices.Change)]

\* A session no create() call has touched.
SessionUninitialized ==
    /\ createEthApp = FALSE
    /\ app = Undefined
    /\ opens = 0
    /\ live = [h \in Handles |-> "none"]
    /\ cpc = [c \in Callers |-> "idle"]
    /\ ci = [c \in Callers |-> 0]
    /\ ctransport = [c \in Callers |-> Undefined]
    /\ csleep = [c \in Callers |-> 0]
    /\ cobserved = [c \in Callers |-> "none"]
    /\ csigner = [c \in Callers |-> Undefined]
    /\ cerror = [c \in Callers |-> "none"]

\* A session the first caller has claimed and whose transport is opening.
SessionInitializing ==
    /\ createEthApp = TRUE
    /\ app = Undefined
    /\ opens = 1
    /\ live = [h \in Handles |-> "none"]
    /\ cpc = [c \in Callers |-> IF c = 1 THEN "opening" ELSE "idle"]
    /\ ci = [c \in Callers |-> 0]
    /\ ctransport = [c \in Callers |-> IF c = 1 THEN 1 ELSE Undefined]
    /\ csleep = [c \in Callers |-> 0]
    /\ cobserved = [c \in Callers |-> IF c = 1 THEN "Uninitialized" ELSE "none"]
    /\ csigner = [c \in Callers |-> Undefined]
    /\ cerror = [c \in Callers |-> "none"]

ParseInit ==
    /\ SessionUninitialized \/ SessionInitializing \/ SessionReady
    /\ smodule \in Signers
    /\ SignerIdle
    /\ RetryIdle
    /\ ConcurrentIdle
    /\ \E s \in PathInputs :
          parser = [call |-> "none", path |-> s, result |-> NoOutcome, origin |-> NoOutcome]
    /\ SigningIdle

\* parseBip32Path is applied to the input.
Parse ==
    /\ parser.call = "none"
    /\ parser' = [parser EXCEPT !.call = "parse", !.result = parseBip32Path(parser.path)]
    /\ UNCHANGED <<sessionVars, callerVars, signerVars, retryVars, concurrentVars, signingVars>>

\* parseBip32Path is applied to the normalized string it returned.
ParseNormalized ==
    /\ parser.call = "parse"
    /\ parser.result.kind = "ok"
    /\ parser' = [call |-> "reparse",
                  path |-> parser.result.normalized,
                  result |-> parseBip32Path(parser.result.normalized),
                  origin |-> parser.result]
    /\ UNCHANGED <<sessionVars, callerVars, signerVars, retryVars, concurrentVars, signingVars>>

\* CreateWithPath with the path parsed after the session is claimed.
CreateWithPathClaimsFirst ==
    /\ parser.call = "none"
    /\ smodule \in CreateModules
    /\ LET parsed == parseBip32Path(parser.path) IN
          /\ parsed.kind = "error" \/ (createEthApp /\ app # Undefined)
          /\ parser' = [parser EXCEPT
                        !.call = "create",
                        !.result = IF parsed.kind = "error" THEN parsed
                                   ELSE [kind |-> "signer", path |-> parsed.normalized, app |-> app]]
    /\ IF ~createEthApp
       THEN createEthApp' = TRUE /\ opens' = opens + 1
       ELSE UNCHANGED <<createEthApp, opens>>
    /\ UNCHANGED <<app, live, callerVars, signerVars, retryVars, concurrentVars, signingVars>>

\* create(path): `path = parseBip32Path(path).normalized` throws on a path
\* the parser rejects, whatever the session; on a Ready session neither
\* branch is taken, `return new SolanaLedgerSigner(path)`.
CreateWithPath ==
    /\ parser.call = "none"
    /\ smodule \in CreateModules
    /\ LET parsed == parseBip32Path(parser.path) IN
          /\ parsed.kind = "error" \/ (createEthApp /\ app # Undefined)
          /\ parser' = [parser EXCEPT
                        !.call = "create",
                        !.result = IF parsed.kind = "error" THEN parsed
                                   ELSE [kind |-> "signer", path |-> parsed.normalized, app |-> app]]
    /\ UNCHANGED <<sessionVars, callerVars, signerVars, retryVars, concurrentVars, signingVars>>

\* LedgerAccount.create(path) on a Ready session whose getAccount call has
\* returned: `const bip32Path = parseBip32Path(path)` and
\* `return new LedgerAccount(address, publicKey, bip32Path)`.
CreateAccount ==
    /\ parser.call = "none"
    /\ smodule = "viem-v2"
    /\ LET bip32Path == parseBip32Path(parser.path) IN
          /\ bip32Path.kind = "error" \/ (createEthApp /\ app # Undefined)
          /\ parser' = [parser EXCEPT
                        !.call = "create",
                        !.result = IF bip32Path.kind = "error" THEN bip32Path
                                   ELSE LedgerAccount(bip32Path)]
    /\ UNCHANGED <<sessionVars, callerVars, signerVars, retryVars, concurrentVars, signingVars>>

ParseNext ==
    \/ Parse
    \/ ParseNormalized
    \/ CreateWithPath
    \/ CreateAccount

ParseSpec == ParseInit /\ [][ParseNext]_vars

(***************************************************************************)
(* Device session: properties of create().                                 *)
(***************************************************************************)

\* Callers that have entered create().
Entered == {c \in Callers : cpc[c] # "idle"}

\* C1: Transport.open is invoked exactly once, by the first caller of
\* create(), and by no later caller whatever session state that caller saw.
C1_OpenExactlyOnce ==
    /\ opens = (IF Entered = {} THEN 0 ELSE 1)
    /\ \A c \in Callers : ctransport[c] # Undefined <=> (c = 1 /\ c \in Entered)
    /\ \A c \in Entered : c # 1 => cobserved[c] \in {"Initializing", "Ready"}

\* Every caller has finished, one of them after waiting on the initializer.
C1_Witness ==
    /\ \A c \in Callers : cpc[c] \in {"returned", "threw"}
    /\ \E c \in Callers : cobserved[c] = "Initializing"

\* C2: every signer create() returns holds a handle whose liveness check has
\* already completed successfully.
C2_ReturnedHandleIsLive ==
    \A c \in Callers :
        cpc[c] = "returned" => (csigner[c] # Undefined /\ live[csigner[c]] = "ok")

\* C3: the flag is never reset, the handle is written at most once and never
\* changes afterwards, and the session state only moves
\* Uninitialized -> Initializing -> Ready.
C3_NoWayBack ==
    [][ /\ createEthApp => createEthApp'
        /\ app # Undefined => app' = app
        /\ \/ SessionState' = SessionState
           \/ SessionState = "Uninitialized" /\ SessionState' = "Initializing"
           \/ SessionState = "Initializing" /\ SessionState' = "Ready" ]_vars

\* The session is Ready, its liveness check has failed, and a later caller
\* has been handed the handle all the same.
C3_Witness ==
    /\ app # Undefined
    /\ live[app] = "failed"
    /\ \E c \in Callers : cobserved[c] = "Ready" /\ cpc[c] = "returned"

\* The step in which caller c's pending sleep() resolves and c polls.
Polls(c) ==
    /\ cpc[c] = "sleeping"
    /\ cpc'[c] # "sleeping" \/ ci'[c] # ci[c]

\* C4: a caller that saw Initializing polls once per 100 ms pause, returns the
\* handle at the first poll that finds it published, polls at most 1200
\* times, and fails with the timeout error exactly when the handle is still
\* unpublished at the 1200th poll.
C4_PollLoop ==
    [][ \A c \in Callers :
          /\ cpc[c] = "sleeping" =>
                (cobserved[c] = "Initializing" /\ csleep[c] = 100 /\ ci[c] + 1 <= 1200)
          /\ Polls(c) =>
                /\ app # Undefined =>
                      (cpc'[c] = "returned" /\ csigner'[c] = app)
                /\ (app = Undefined /\ ci[c] + 1 < 1200) =>
                      (cpc'[c] = "sleeping" /\ ci'[c] = ci[c] + 1 /\ csleep'[c] = 100)
                /\ (app = Undefined /\ ci[c] + 1 = 1200) =>
                      (cpc'[c] = "threw" /\ cerror'[c] = TimedOutMsg)
                /\ cpc'[c] = "threw" <=> (app = Undefined /\ ci[c] + 1 = 1200) ]_vars

\* A poller has timed out while another caller's transport never opened, and
\* the handle was published to nobody.
C4_Witness ==
    \E c \in Callers :
        /\ cpc[c] = "threw"
        /\ cerror[c] = TimedOutMsg
        /\ cobserved[c] = "Initializing"

\* C5: a create() call that finds the session Ready returns the existing
\* handle in the same step: no pause, no transport opened, no liveness check
\* issued, session state unchanged.
C5_ReadyIsImmediate ==
    [][ \A c \in Callers :
          (cpc[c] = "idle" /\ cpc'[c] # "idle" /\ SessionState = "Ready") =>
              /\ cpc'[c] = "returned"
              /\ csigner'[c] = app
              /\ csleep'[c] = 0
              /\ ctransport'[c] = Undefined
              /\ UNCHANGED <<createEthApp, app, opens, live>> ]_vars

\* A caller found the session Ready and holds a signer.
C5_Witness ==
    \E c \in Callers :
        /\ cobserved[c] = "Ready"
        /\ cpc[c] = "returned"
        /\ csigner[c] = app

(***************************************************************************)
(* Retry executor: properties of execute.                                  *)
(***************************************************************************)

\* The last invocation failed with the busy sentinel.
LastWasBusy == rlast.kind = "error" /\ rlast.id = "TransportLocked"

\* Every invocation made so far has failed with the busy sentinel.
OnlyBusySoFar == rinvocations >= 1 /\ rbusy = rinvocations

\* C6 as stated: an operation that fails with the busy sentinel k <= 1199
\* times and then succeeds makes execute return that result after k + 1
\* invocations and k pauses; so after k <= 1199 busy failures execute is
\* pausing before invocation k + 1, never finished.
C6_BusyThenSuccess ==
    /\ rpc = "returned" =>
          /\ rresult = rlast
          /\ rbusy <= 1199
          /\ rinvocations = rbusy + 1
          /\ rpauses = rbusy
    /\ (OnlyBusySoFar /\ rbusy <= 1199) => (rpc = "sleeping" /\ rsleep = 100)

\* C6 as amended: the same, for busy failures on which the error hook, when
\* supplied, does not fail.
C6_BusyThenSuccessHookQuiet ==
    /\ rpc = "returned" =>
          /\ rresult = rlast
          /\ rbusy <= 1199
          /\ rinvocations = rbusy + 1
          /\ rpauses = rbusy
    /\ (OnlyBusySoFar /\ rbusy <= 1199 /\ ~HookThrows(rhook, rlast)) =>
          (rpc = "sleeping" /\ rsleep = 100)

\* execute returned on its 1200th invocation after 1199 busy failures, with a
\* hook supplied.
C6_Witness ==
    /\ rpc = "returned"
    /\ rbusy = 1199
    /\ rinvocations = 1200
    /\ rhook # "undefined"

\* C7 as stated: when every invocation fails with the busy sentinel, execute
\* fails only after exactly 1200 invocations, and with the Timeout error.
C7_AlwaysBusyTimesOut ==
    (rpc = "threw" /\ OnlyBusySoFar) =>
        (rinvocations = 1200 /\ rresult = TimeoutError /\ rresult.id # "TransportLocked")

\* C7 as amended: the same, when the error hook, if supplied, fails on none
\* of the busy errors.
C7_AlwaysBusyTimesOutHookQuiet ==
    (rpc = "threw" /\ OnlyBusySoFar /\ ~HookThrows(rhook, rlast)) =>
        (rinvocations = 1200 /\ rresult = TimeoutError /\ rresult.id # "TransportLocked")

\* execute timed out after 1200 busy failures and as many pauses.
C7_Witness ==
    /\ rpc = "threw"
    /\ rresult = TimeoutError
    /\ rbusy = 1200
    /\ rpauses = 1200

\* C8: an invocation failing without the busy sentinel, on which the hook does
\* not fail, makes execute fail at that attempt with that same error: no pause
\* after it, no further invocation.
C8_OtherErrorsPropagate ==
    (rlast.kind = "error" /\ rlast.id # "TransportLocked" /\ ~HookThrows(rhook, rlast)) =>
        /\ rpc = "threw"
        /\ rresult = rlast
        /\ rsleep = 0
        /\ rpauses = rinvocations - 1
        /\ rbusy = rinvocations - 1

\* A non-busy error ended execute at its third attempt, past a hook that saw
\* it and did not fail.
C8_Witness ==
    /\ rpc = "threw"
    /\ rlast.kind = "error"
    /\ rlast.id # "TransportLocked"
    /\ rresult = rlast
    /\ rhook = "appNotRunning"
    /\ rhookarg = rlast
    /\ rinvocations = 3

\* Failed attempts of the execute call so far.
FailedAttempts ==
    IF rpc \in {"invoking", "returned"} THEN rinvocations - 1 ELSE rinvocations

\* C9: a supplied hook is invoked with the error on every failed attempt,
\* ahead of the busy test; when it fails execute fails at once with the hook's
\* error, without pause or retry, even on a busy error.
C9_HookFirst ==
    (rhook # "undefined" /\ rpc # "idle") =>
        /\ rhookcalls = FailedAttempts
        /\ rlast.kind = "error" => rhookarg = rlast
        /\ (rlast.kind = "error" /\ HookThrows(rhook, rlast)) =>
              /\ rpc = "threw"
              /\ rresult = HookError(rhook, rlast)
              /\ rsleep = 0
              /\ rpauses = rinvocations - 1

\* The hook failed on an error carrying the busy sentinel, after earlier busy
\* errors it had let through.
C9_Witness ==
    /\ rhook = "appNotRunning"
    /\ LastWasBusy
    /\ rlast.statusCode = 27404
    /\ rpc = "threw"
    /\ rresult = AppNotRunningError
    /\ rinvocations = 3

\* C10: in every signer, an attempt of a device operation that fails with
\* status code 27404 ends the execute call at that attempt with the
\* "device is not running the application" error.
C10_AppNotRunningIsFatal ==
    (smodule \in Signers /\ spc = "awaiting" /\ rlast.kind = "error" /\ rlast.statusCode = 27404) =>
        /\ rpc = "threw"
        /\ rresult = AppNotRunningError

(***************************************************************************)
(* signTypedData: properties of the fallback onto hashed signing.          *)
(***************************************************************************)

\* The direct path of the pending signTypedData call has ended with an error
\* whose status code is 27904.
DirectUnsupported ==
    /\ spc = "awaiting"
    /\ sop = "signTypedData"
    /\ sphase = "direct"
    /\ rpc = "threw"
    /\ rresult.statusCode = 27904

\* The step that starts the hashed-message signing with the two hashes.
StartsHashedSigning ==
    /\ spc' = "awaiting"
    /\ sphase' = "fallback"
    /\ soperations' = Append(soperations,
                             [name |-> "signEIP712HashedMessage", path |-> spath,
                              domainHash |-> <<"d", "0">>, valueHash |-> <<"e", "1">>])
    /\ rpc' = "invoking"
    /\ rinvocations' = 1

\* The step in which the pending signTypedData call ends on its fallback path.
FallbackEnds == sphase = "fallback" /\ spc = "awaiting" /\ spc' # "awaiting"

\* C11 as stated: after the direct path ends with status code 27904 the
\* hashed-message operation is invoked with the two hashes, exactly once, and
\* signTypedData ends with the result, or the error, of that invocation.
C11_FallbackInvokesHashedOnce ==
    [][ /\ DirectUnsupported => StartsHashedSigning
        /\ FallbackEnds =>
              /\ rinvocations = 1
              /\ rlast.kind = "value" =>
                    (spc' = "returned" /\ sresult' = Val(CallValue(smodule, sop, rlast.value)))
              /\ rlast.kind = "error" => (spc' = "threw" /\ sresult' = rlast) ]_vars

\* C11 as amended: the hashed-message operation is handed to the retry
\* executor in exactly one execute call, which may invoke it again after each
\* busy rejection, and signTypedData ends with the result, or the error, of
\* that execute call.
C11_FallbackExecutesHashedOnce ==
    [][ /\ DirectUnsupported => StartsHashedSigning
        /\ (sphase = "fallback" /\ sphase' = "fallback") => soperations' = soperations
        /\ sphase' = "fallback" => Len(soperations') = 2
        /\ FallbackEnds =>
              /\ rpc \in {"returned", "threw"}
              /\ rpc = "returned" =>
                    (spc' = "returned" /\ sresult' = Val(CallValue(smodule, sop, rresult.value)))
              /\ rpc = "threw" => (spc' = "threw" /\ sresult' = rresult) ]_vars

\* signTypedData has returned a signature obtained on the fallback path.
C11_Witness ==
    /\ sop = "signTypedData"
    /\ spc = "returned"
    /\ sphase = "fallback"
    /\ Len(soperations) = 2
    /\ soperations[1].name = "signEIP712Message"
    /\ soperations[2].name = "signEIP712HashedMessage"

\* The hashed-message operation is among the operations handed to the executor.
HashedAttempted(ops) == \E k \in 1..Len(ops) : ops[k].name = "signEIP712HashedMessage"

\* C12: the hashed-message operation is attempted only in the step that
\* follows a direct path ended with status code 27904; a direct path that
\* succeeds returns, and one that ends with any other error (another status
\* code, none, the rewritten app-not-running error, the retry timeout) ends
\* signTypedData with that error, without fallback.
C12_FallbackOnlyOnUnsupported ==
    [][ /\ (HashedAttempted(soperations') /\ ~HashedAttempted(soperations)) => DirectUnsupported
        /\ (sphase' = "fallback" /\ sphase # "fallback") => DirectUnsupported
        /\ (spc = "awaiting" /\ sphase = "direct" /\ rpc = "returned") =>
              (spc' = "returned" /\ soperations' = soperations)
        /\ (spc = "awaiting" /\ sphase = "direct" /\ rpc = "threw" /\ rresult.statusCode # 27904) =>
              (spc' = "threw" /\ sresult' = rresult /\ soperations' = soperations) ]_vars

\* signTypedData has failed with the retry timeout of its direct path, and
\* nothing but the direct operation was attempted.
C12_Witness ==
    /\ sop = "signTypedData"
    /\ spc = "threw"
    /\ sresult = [kind |-> "error", value |-> NoValue, id |-> "none", statusCode |-> 0, message |-> "timeout"]
    /\ sphase = "direct"
    /\ Len(soperations) = 1


(***************************************************************************)
(* Address cache: properties of getAddress / getAccount.                   *)
(***************************************************************************)

\* The step in which a getAddress call is made, no signer call being pending.
StartsLookup == CallFinished /\ sop' = "getAddress" /\ spc' \in {"awaiting", "returned"}

\* C13: of two lookups for the same path made one after the other, the first
\* derives on the device and stores the result, the second returns the stored
\* value without handing any operation to the device; the entry is derived
\* and stored at most once.
C13_SecondLookupUsesCache ==
    [][ /\ (StartsLookup /\ addressCache[spath'] # NoValue) =>
              /\ spc' = "returned"
              /\ sresult'.value = addressCache[spath']
              /\ soperations' = <<>>
              /\ rpc' = "idle" /\ rinvocations' = 0
              /\ addressCache' = addressCache /\ cacheWrites' = cacheWrites
        /\ (StartsLookup /\ addressCache[spath'] = NoValue) =>
              /\ spc' = "awaiting"
              /\ soperations' = <<[name |-> "getAddress", path |-> spath']>>
              /\ rinvocations' = 1
        /\ (spc = "awaiting" /\ sop = "getAddress" /\ spc' = "returned") =>
              /\ addressCache'[spath] = sresult'.value
              /\ cacheWrites'[spath] = cacheWrites[spath] + 1
        /\ \A p \in Paths : cacheWrites'[p] <= 1 ]_vars

\* A lookup has been answered from the entry an earlier lookup stored.
C13_Witness ==
    /\ sop = "getAddress"
    /\ spc = "returned"
    /\ soperations = <<>>
    /\ cacheWrites[spath] = 1
    /\ sresult.value = addressCache[spath]

(***************************************************************************)
(* Signature normalization: properties of the signing methods.             *)
(***************************************************************************)

\* C15: every signing method of every Ethereum adapter hands `r` and `s` to
\* signature serialization with the hex prefix, the device having returned
\* them without one.
C15_SignatureFieldsPrefixed ==
    (/\ spc = "returned"
     /\ smodule \in {"ethers-v5", "ethers-v6", "viem-v2"}
     /\ sop \in {"signTransaction", "signMessage", "signTypedData"}) =>
        /\ Len(sresult.value.r) >= 2 /\ SubSeq(sresult.value.r, 1, 2) = <<"0", "x">>
        /\ Len(sresult.value.s) >= 2 /\ SubSeq(sresult.value.s, 1, 2) = <<"0", "x">>

(***************************************************************************)
(* Path parser: properties of parseBip32Path and create(path).             *)
(***************************************************************************)

\* C17: parseBip32Path fails with the 'Path must start with "m"' error for
\* every string that does not begin with the root marker, well-formed
\* segments or not.
C17_RootMarkerRequired ==
    (parser.call \in {"parse", "reparse"} /\ (parser.path = <<>> \/ Head(parser.path) # "m")) =>
        parser.result = [kind |-> "error", message |-> "Path must start with \"m\""]

\* 44'/60'/0'/0/0 has been refused for its missing root marker.
C17_Witness ==
    /\ parser.call = "parse"
    /\ parser.path = <<"4", "4", "'", "/", "6", "0", "'", "/", "0", "'", "/", "0", "/", "0">>
    /\ parser.result.kind = "error"
    /\ parser.result.message = "Path must start with \"m\""

\* C18: SolanaLedgerSigner.create given a path in its documented format,
\* 44'/501'/0'/0' without root marker, returns a signer bound to that path.
C18_SolanaCreateAcceptsDocumentedPath ==
    (parser.call = "create" /\ smodule = "solana" /\ parser.path = SolanaDocumentedPath) =>
        /\ parser.result.kind = "signer"
        /\ parser.result.path = SolanaDocumentedPath

\* C19: for a path m/i1'/i2/... that parseBip32Path accepts, parsing the
\* normalized string it returned succeeds and yields the same indices.
C19_ParseIdempotent ==
    (parser.call = "reparse" /\ Len(parser.origin.indices) >= 1) =>
        /\ parser.result.kind = "ok"
        /\ parser.result.indices = parser.origin.indices

\* The value of decimal digits, for values below 2^31.
RECURSIVE DecimalValue(_, _)
DecimalValue(d, acc) ==
    IF Len(d) = 0 THEN acc ELSE DecimalValue(Tail(d), acc * 10 + DigitValue(d[1]))

\* C20: for every accepted path there is one index per segment, in segment
\* order; each fits in 32 bits; a segment with the hardened marker yields its
\* value plus 0x80000000 (top bit set), one without yields its value (top bit
\* clear).
C20_HardenedOffset ==
    (parser.call = "parse" /\ parser.result.kind = "ok" /\ parser.path # <<"m">>) =>
        LET parts == Split(parser.result.normalized)
            indices == parser.result.indices
        IN  /\ Len(indices) = Len(parts)
            /\ \A k \in 1..Len(parts) :
                  LET hardened == parts[k][Len(parts[k])] = "'"
                      digits == IF hardened THEN SubSeq(parts[k], 1, Len(parts[k]) - 1) ELSE parts[k]
                      idx == indices[k]
                  IN  /\ ~idx.wide /\ idx.hi \in 0..65535 /\ idx.lo \in 0..65535
                      /\ hardened =>
                            /\ idx.hi >= 32768
                            /\ (idx.hi - 32768) * 65536 + idx.lo = DecimalValue(digits, 0)
                      /\ ~hardened =>
                            /\ idx.hi < 32768
                            /\ idx.hi * 65536 + idx.lo = DecimalValue(digits, 0)

\* m/2147483647'/44 has been parsed: 0xFFFFFFFF, then 44.
C20_Witness ==
    /\ parser.call = "parse"
    /\ parser.result.kind = "ok"
    /\ Len(parser.result.indices) = 2
    /\ parser.result.indices[1] = [hi |-> 65535, lo |-> 65535, wide |-> FALSE]
    /\ parser.result.indices[2] = [hi |-> 0, lo |-> 44, wide |-> FALSE]

(***************************************************************************)
(* Concurrent signer calls: the address cache and the device lock          *)
(***************************************************************************)

\* Lookups of path p that have returned an address.
ReturnedLookups(p) ==
    {c \in Started : job[c].op = "getAddress" /\ job[c].path = p /\ job[c].pc = "returned"}

\* C14 (as stated): under any interleaving of getAddress calls the cache
\* entry of a path is written by the first successful derivation only and
\* never written again.
C14_CacheWrittenOnce ==
    \A p \in Paths : cacheWrites[p] <= 1

\* C14 (amended): an entry, once written, is never removed and never changes
\* its value; it is present exactly when it has been written, and it is
\* written at most once per lookup that returned, so lookups that missed the
\* cache before the first write write it again with the same value.
C14_CacheEntryStable ==
    [][\A p \in Paths :
          /\ addressCache[p] # NoValue => addressCache'[p] = addressCache[p]
          /\ cacheWrites'[p] >= cacheWrites[p]
          /\ (addressCache'[p] # NoValue) <=> (cacheWrites'[p] >= 1)
          /\ cacheWrites'[p] <= Cardinality(ReturnedLookups(p)')]_vars

\* Two overlapping lookups of one path have both derived and stored it.
C14_Witness ==
    \E p \in Paths : cacheWrites[p] = 2 /\ addressCache[p] # NoValue

\* C16: on a device that rejects a command issued while another is in
\* flight and completes every accepted command within CommandPolls polls,
\* all started calls return again and again, no call ever throws, and the
\* call in flight is always the one whose command the device accepted.
C16_ConcurrentCallersComplete ==
    /\ []<>(\A c \in Started : job[c].pc = "returned")
    /\ [](\A c \in Started : job[c].pc # "threw")
    /\ [](\A c \in Started : job[c].pc = "inflight" <=> device.owner = c)

\* Two calls have returned, one of them after being rejected as busy and
\* retried.
C16_Witness ==
    /\ Len(job) >= 2
    /\ \A c \in Started : job[c].pc = "returned"
    /\ \E c \in Started : job[c].i > 0

(***************************************************************************)
(* Path parser: index range, the bare root marker, the normalized string.  *)
(***************************************************************************)

\* 2147483648 in decimal digits.
OffsetDigits == <<"2", "1", "4", "7", "4", "8", "3", "6", "4", "8">>

\* The digits, leading zeros aside, denote 2147483648 or more.
DenotesOffsetOrMore(d) ==
    LET c == StripZeros(d) IN
        \/ Len(c) > Len(OffsetDigits)
        \/ Len(c) = Len(OffsetDigits) /\ ~DigitsLess(c, OffsetDigits)

\* A segment of digits with an optional hardened marker.
WellFormed(seg) ==
    LET d == IF Len(seg) >= 1 /\ seg[Len(seg)] = "'" THEN SubSeq(seg, 1, Len(seg) - 1) ELSE seg
    IN  Len(d) >= 1 /\ \A k \in 1..Len(d) : d[k] \in Digits

\* The digits of a well-formed segment.
DigitsOf(seg) ==
    IF seg[Len(seg)] = "'" THEN SubSeq(seg, 1, Len(seg) - 1) ELSE seg

\* The text after "m/" of a path that starts with it.
AfterRoot(path) == SubSeq(path, 3, Len(path))

\* C21: when a segment, hardened or not, denotes 2147483648 or more and the
\* segments before it are well-formed and in range, parseBip32Path fails
\* with 'Node index out of range'; a path of well-formed segments that all
\* denote at most 2147483647 is accepted.
C21_IndexOutOfRange ==
    (/\ parser.call = "parse"
     /\ Len(parser.path) >= 3
     /\ parser.path[1] = "m" /\ parser.path[2] = "/") =>
        LET parts == Split(AfterRoot(parser.path))
            InRange(k) == WellFormed(parts[k]) /\ ~DenotesOffsetOrMore(DigitsOf(parts[k]))
            TooLarge(k) == WellFormed(parts[k]) /\ DenotesOffsetOrMore(DigitsOf(parts[k]))
        IN  /\ (\E k \in 1..Len(parts) : TooLarge(k) /\ \A j \in 1..(k - 1) : InRange(j)) =>
                  parser.result = [kind |-> "error", message |-> "Node index out of range"]
            /\ (\A k \in 1..Len(parts) : InRange(k)) => parser.result.kind = "ok"

\* m/2147483648' has been refused as out of range.
C21_Witness ==
    /\ parser.call = "parse"
    /\ parser.path = <<"m", "/">> \o OffsetDigits \o <<"'">>
    /\ parser.result.kind = "error"
    /\ parser.result.message = "Node index out of range"

\* C22: parseBip32Path applied to exactly "m" returns an empty index
\* sequence and an empty normalized string, without error.
C22_RootAlone ==
    (parser.call = "parse" /\ parser.path = <<"m">>) =>
        parser.result = [kind |-> "ok", normalized |-> <<>>, indices |-> <<>>]

\* "m" has been parsed.
C22_Witness ==
    /\ parser.call = "parse"
    /\ parser.path = <<"m">>
    /\ parser.result.kind = "ok"

\* C23: for every accepted path the normalized string is the input without
\* its leading "m" and the separator after it, character for character, and
\* does not begin with "m".
C23_NormalizedIsInputWithoutRoot ==
    (parser.call = "parse" /\ parser.result.kind = "ok") =>
        /\ \/ parser.path = <<"m">> /\ parser.result.normalized = <<>>
           \/ parser.path = <<"m", "/">> \o parser.result.normalized
        /\ parser.result.normalized = <<>> \/ parser.result.normalized[1] # "m"

\* m/007 has been parsed: the normalized string keeps the leading zeros.
C23_Witness ==
    /\ parser.call = "parse"
    /\ parser.path = <<"m", "/", "0", "0", "7">>
    /\ parser.result.kind = "ok"
    /\ parser.result.normalized = <<"0", "0", "7">>

(***************************************************************************)
(* LedgerAccount: the HD fields of an account.                             *)
(***************************************************************************)

\* C24: for a five-level path m/purpose/coin/account/change/address a
\* LedgerAccount has the third index as accountIndex, the fourth as
\* changeIndex and the fifth as addressIndex.
C24_HDFieldsFollowBip44 ==
    (/\ parser.call = "create"
     /\ parser.result.kind = "account"
     /\ Len(parseBip32Path(parser.path).indices) = 5) =>
        LET indices == parseBip32Path(parser.path).indices IN
            /\ parser.result.accountIndex = [set |-> TRUE, index |-> indices[3]]
            /\ parser.result.changeIndex = [set |-> TRUE, index |-> indices[4]]
            /\ parser.result.addressIndex = [set |-> TRUE, index |-> indices[5]]

(***************************************************************************)
(* Retry executor: the errors that reach the caller of execute.            *)
(***************************************************************************)

\* The execute call has used up its attempts.
BudgetExhausted == rpc = "threw" /\ ri = RetryLimit

\* C25: the error execute fails with once its retry budget is used up is an
\* error whose message differs from that of the error create() fails with
\* once its initialization wait is used up.
C25_TimeoutsDistinguishable ==
    BudgetExhausted =>
        /\ rresult.kind = "error"
        /\ rresult.message = "timeout"
        /\ rresult.message # TimedOutMsg

\* execute has used up its attempts on a busy device.
C25_Witness ==
    /\ BudgetExhausted
    /\ rbusy = RetryLimit
    /\ rresult.message = "timeout"

\* C27: when the hook, if any, does not fail on it, an attempt that fails
\* with the busy sentinel is followed by a pause; a pause is followed by
\* another attempt or, once 1200 attempts are used up, by the Timeout error;
\* so no error execute fails with carries the busy sentinel.
C27_BusyNeverReachesCaller ==
    [][ /\ (rpc = "invoking" /\ rbusy' = rbusy + 1
                /\ ~(rhook # "undefined" /\ HookThrows(rhook, rlast'))) =>
              (rpc' = "sleeping" /\ rresult' = NoOutcome)
        /\ (rpc = "sleeping" /\ rpc' # "sleeping") =>
              \/ rpc' = "invoking" /\ rinvocations' = rinvocations + 1
              \/ /\ rpc' = "threw"
                 /\ rinvocations = RetryLimit
                 /\ rresult' = TimeoutError
        /\ rpc' = "threw" => rresult'.id # BusyId ]_vars

\* A busy attempt was absorbed and execute went on to its second attempt,
\* past a hook that saw the busy error and did not fail.
C27_Witness ==
    /\ rpc = "invoking"
    /\ rinvocations = 2
    /\ rbusy = 1
    /\ rhook = "appNotRunning"
    /\ rhookarg.id = BusyId

(***************************************************************************)
(* Concurrent signer calls: overlapping lookups, and the retry counters.   *)
(***************************************************************************)

\* C26: a lookup that starts while the entry of its path is missing goes to
\* the device through the executor, whether or not another lookup of the
\* path is under way; when its own command completes it stores the address
\* it returns; and every lookup of the path that has returned, returned the
\* address the entry holds.
C26_LookupsNotDeduplicated ==
    [][ /\ (/\ Len(job') = Len(job) + 1
            /\ job'[Len(job')].op = "getAddress"
            /\ addressCache[job'[Len(job')].path] = NoValue) =>
               /\ job'[Len(job')].pc \in {"inflight", "sleeping"}
               /\ addressCache' = addressCache
        /\ \A c \in Started :
              (job[c].op = "getAddress" /\ job[c].pc = "inflight" /\ job'[c].pc = "returned") =>
                  /\ device.owner = c
                  /\ cacheWrites'[job[c].path] = cacheWrites[job[c].path] + 1
                  /\ addressCache'[job[c].path] = job'[c].result.value
        /\ \A p \in Paths : \A c \in ReturnedLookups(p)' :
              job'[c].result.value = addressCache'[p] ]_vars

\* Two lookups of one path, the second started while the first was on the
\* device, have both stored and returned the address.
C26_Witness ==
    /\ Len(job) >= 2
    /\ job[1].op = "getAddress" /\ job[2].op = "getAddress"
    /\ job[1].path = job[2].path
    /\ job[1].pc = "returned" /\ job[2].pc = "returned"
    /\ job[2].i > 0
    /\ cacheWrites[job[1].path] = 2
    /\ job[1].result = job[2].result

C28_ExecuteTerminates ==
    /\ [](rpc \in {"invoking", "sleeping"} => <>(rpc \in {"returned", "threw"}))
    /\ [](rinvocations <= RetryLimit)
    /\ [](/\ rpc = "invoking" => rpauses = rinvocations - 1
          /\ rpc = "sleeping" => (rpauses = rinvocations /\ rsleep = SleepMs)
          /\ rpc = "returned" => (rpauses = rinvocations - 1 /\ rresult = rlast)
          /\ rpc = "threw" =>
                \/ /\ rresult = TimeoutError
                   /\ rinvocations = RetryLimit
                   /\ rpauses = RetryLimit
                \/ /\ rresult.kind = "error"
                   /\ rresult # TimeoutError
                   /\ rpauses = rinvocations - 1)

\* execute has ended with the Timeout error after 1200 invocations.
C28_Witness ==
    /\ smodule = "common"
    /\ rpc = "threw"
    /\ rresult = TimeoutError
    /\ rinvocations = RetryLimit
    /\ rpauses = RetryLimit

(***************************************************************************)
(* Retry executor: the handle an operation is run against.                 *)
(***************************************************************************)

\* C29: every invocation of the operation made once the handle is published
\* is given the published handle, in execute calls begun before the
\* publication as well, though the executor was built while the container
\* held undefined.
C29_HandleReadAtEveryAttempt ==
    [][ (rpc' = "invoking" /\ rinvocations' = rinvocations + 1 /\ app # Undefined) =>
            (rapp' = app /\ rapp' # Undefined) ]_vars

\* A retried attempt runs against the handle that create() has just
\* published and is still checking.
C29_Witness ==
    /\ \E c \in Callers : cpc[c] = "checking"
    /\ app # Undefined
    /\ rpc = "invoking"
    /\ rinvocations >= 2
    /\ rapp = app

(***************************************************************************)
(* Path parser: malformed segments.                                        *)
(***************************************************************************)

\* What follows the root marker: the text after "m/", or after "m" when no
\* separator follows it.
Remainder(path) ==
    IF Len(path) >= 2 /\ path[2] = "/" THEN SubSeq(path, 3, Len(path))
    ELSE path

\* C31: for a path that begins with the root marker and is more than it,
\* when a piece between separators is not one or more decimal digits with
\* at most one apostrophe after them, and the pieces before it are
\* well-formed and in range, parseBip32Path fails with 'Invalid child
\* index'.
C31_MalformedSegmentRejected ==
    (/\ parser.call = "parse"
     /\ Len(parser.path) >= 2
     /\ parser.path[1] = "m") =>
        LET parts == Split(Remainder(parser.path))
            InRange(k) == WellFormed(parts[k]) /\ ~DenotesOffsetOrMore(DigitsOf(parts[k]))
        IN  (\E k \in 1..Len(parts) : ~WellFormed(parts[k]) /\ \A j \in 1..(k - 1) : InRange(j)) =>
                parser.result = [kind |-> "error", message |-> "Invalid child index"]

\* "m/" has been refused for its empty segment.
C31_Witness ==
    /\ parser.call = "parse"
    /\ parser.path = <<"m", "/">>
    /\ parser.result.kind = "error"
    /\ parser.result.message = "Invalid child index"

(***************************************************************************)
(* create(path): a path the parser rejects.                                *)
(***************************************************************************)

\* C32: a create() call whose path the parser rejects ends with the
\* parser's error in a step that leaves the session, the callers in
\* create(), the executor, the device lock and the address cache as they
\* were: nothing claimed, opened, polled or invoked.
C32_RejectedPathLeavesSession ==
    [][ (parser.call = "none" /\ parser'.call = "create" /\ parser'.result.kind = "error") =>
            /\ UNCHANGED <<createEthApp, app, opens, live>>
            /\ UNCHANGED <<cpc, ci, ctransport, csleep, cobserved, csigner, cerror>>
            /\ UNCHANGED <<rpc, rinvocations, rpauses, soperations>>
            /\ UNCHANGED <<job, device>>
            /\ UNCHANGED <<addressCache, cacheWrites>> ]_vars

\* create("44'/60'/0'/0/0") has failed on a session nobody had claimed, and
\* nobody has claimed it.
C32_Witness ==
    /\ parser.call = "create"
    /\ parser.path = StripRoot(defaultPath)
    /\ parser.result.kind = "error"
    /\ ~createEthApp
    /\ opens = 0

(***************************************************************************)
(* create(): the transport of the initializing caller fails to open.       *)
(***************************************************************************)

\* The initializing caller's Transport.open has rejected.
OpenFailed ==
    \E c \in Callers : cpc[c] = "threw" /\ cerror[c] = "TransportOpenError"

\* C33: once the initializing caller's transport open has failed, the
\* session stays claimed and unpublished and no transport is opened again;
\* a caller entering create() goes to the polling loop, a poller pauses at
\* most 1200 times, and the only way out of create() is the timeout error
\* at the 1200th poll.
C33_OpenFailureIsPermanent ==
    [][ OpenFailed =>
          /\ createEthApp /\ createEthApp'
          /\ app = Undefined /\ app' = Undefined
          /\ opens' = opens
          /\ \A c \in Callers :
                /\ cpc'[c] \notin {"opening", "checking", "returned"}
                /\ (cpc[c] = "idle" /\ cpc'[c] # "idle") =>
                      (cpc'[c] = "sleeping" /\ cobserved'[c] = "Initializing" /\ ci'[c] = 0)
                /\ cpc'[c] = "sleeping" => ci'[c] + 1 <= 1200
                /\ (cpc[c] # "threw" /\ cpc'[c] = "threw") =>
                      (cerror'[c] = TimedOutMsg /\ ci[c] + 1 = 1200) ]_vars

\* The open of the first caller failed, one transport was ever opened, and
\* another caller has left its polling loop with the timeout error.
C33_Witness ==
    /\ OpenFailed
    /\ createEthApp
    /\ app = Undefined
    /\ opens = 1
    /\ \E d \in Callers :
          /\ cobserved[d] = "Initializing"
          /\ cpc[d] = "threw"
          /\ cerror[d] = TimedOutMsg

(***************************************************************************)
(* getAddress(): a derivation that fails.                                  *)
(***************************************************************************)

\* C34: a getAddress call that ends with the error of its device derivation
\* leaves the address cache as it was, with no entry for its path; the next
\* getAddress call for that path goes to the device again; and an entry of
\* the cache only ever changes to the value a derivation for that same path
\* has just returned.
C34_FailedLookupNotCached ==
    [][ /\ (sop = "getAddress" /\ spc = "awaiting" /\ spc' = "threw") =>
              /\ UNCHANGED <<addressCache, cacheWrites>>
              /\ addressCache'[spath] = NoValue
        /\ (sop = "getAddress" /\ spc = "threw" /\ spc' # "threw"
                /\ sop' = "getAddress" /\ spath' = spath) =>
              /\ spc' = "awaiting"
              /\ soperations' = <<DeviceOperation(smodule, "getAddress", spath)>>
              /\ rpc' = "invoking"
        /\ \A p \in Paths :
              addressCache'[p] # addressCache[p] =>
                  /\ sop = "getAddress" /\ spath = p
                  /\ spc = "awaiting" /\ rpc = "returned"
                  /\ addressCache'[p] = CallValue(smodule, "getAddress", rresult.value) ]_vars

\* A getAddress call has failed with the Timeout error of the executor and
\* the cache holds nothing for its path.
C34_Witness ==
    /\ sop = "getAddress"
    /\ spc = "threw"
    /\ sresult.kind = "error"
    /\ sresult.message = "timeout"
    /\ addressCache[spath] = NoValue

(***************************************************************************)
(* The signing methods as functions of what the device and the caller      *)
(* give them: signTransaction's recovery value, signTypedData's payload    *)
(* and hashes.                                                             *)
(***************************************************************************)

\* The adapters of the Ethereum application.
EthSigners == {"ethers-v5", "ethers-v6", "viem-v2"}

\* Longest `v` string of a device signature that is considered.
MaxVLen == 2

\* Hex digits the `v` strings are made of: 1b and 1c (27, 28), 00 and 01
\* (typed transactions), 25 and 26 (chain 1 under EIP-155) and their mixes.
VDigits == {"0", "1", "2", "5", "6", "b", "c"}

RECURSIVE VStringsOfLength(_)
VStringsOfLength(n) ==
    IF n = 0 THEN {<<>>}
    ELSE {Append(s, ch) : s \in VStringsOfLength(n - 1), ch \in VDigits}

\* The `v` field of the signature clearSignTransaction resolves with: hex
\* digits without prefix.
DeviceVs == UNION {VStringsOfLength(n) : n \in 1..MaxVLen}

HexDigits == Digits \cup {"a", "b", "c", "d", "e", "f"}

HexDigitValue(ch) ==
    CASE ch \in Digits -> DigitValue(ch)
      [] ch = "a" -> 10 [] ch = "b" -> 11 [] ch = "c" -> 12
      [] ch = "d" -> 13 [] ch = "e" -> 14 [] ch = "f" -> 15

\* The number the digits d denote in the given radix.
RECURSIVE ValueInRadix(_, _, _)
ValueInRadix(d, radix, acc) ==
    IF Len(d) = 0 THEN acc
    ELSE ValueInRadix(Tail(d), radix, acc * radix + HexDigitValue(d[1]))

\* `throw new SyntaxError(...)` of a string that is no integer literal.
SyntaxError == Err("SyntaxError", 0, "Cannot convert to a BigInt")

\* The integer a string denotes for BigInt(string) and BigNumber.from(string):
\* hex digits after "0x", binary digits after "0b", decimal digits without
\* prefix, and no integer otherwise.
StringToBigInt(str) ==
    LET body == SubSeq(str, 3, Len(str)) IN
    IF Len(str) >= 3 /\ SubSeq(str, 1, 2) = HexPrefix /\ \A k \in 1..Len(body) : body[k] \in HexDigits
    THEN Val(ValueInRadix(body, 16, 0))
    ELSE IF Len(str) >= 3 /\ SubSeq(str, 1, 2) = <<"0", "b">> /\ \A k \in 1..Len(body) : body[k] \in {"0", "1"}
    THEN Val(ValueInRadix(body, 2, 0))
    ELSE IF AllDigits(str)
    THEN Val(ValueInRadix(str, 10, 0))
    ELSE SyntaxError

\* The `v` a signTransaction hands to its serializer for the device's v:
\* `BigNumber.from(`0x${sig.v}`).toNumber()` in ethers-v5, `"0x" + sig.v`
\* read by the Signature of ethers-v6, `BigInt(signature.v)` in viem-v2.
RecoveryValue(m, v) ==
    CASE m = "viem-v2" -> StringToBigInt(v)
      [] OTHER -> StringToBigInt(WithPrefix(v))

\* The address resolveAddress(name, provider) resolves an ENS name to.
Names == {"alice.eth"}

Addresses == {"0xA1", "0xB2"}

ResolveAddress(a) == IF a \in Names THEN "0xA1" ELSE a

\* The typed data's domain and value, by the content of their one field of
\* type address: `domain.verifyingContract` and a field of the message.
TypedFields == Addresses \cup Names

\* `TypedDataEncoder.resolveNames(domain, types, value, resolveName)`.
resolveNames(domain, value) ==
    [domain |-> ResolveAddress(domain), value |-> ResolveAddress(value)]

\* `TypedDataEncoder.getPayload(domain, types, value)`.
getPayload(domain, value) ==
    Val([form |-> "payload", domain |-> domain, value |-> value])

\* The encoder of ethers given a name where the type is address.
InvalidAddress == Err("INVALID_ARGUMENT", 0, "invalid address")

\* `TypedDataEncoder.hashDomain(domain)` and `TypedDataEncoder.from(types)
\* .hash(value)` of the fallback: a hash is taken as collision-free, and the
\* encoder either rejects a name in an address field or hashes it as given.
HashOutcomes(domain, value) ==
    {Val([form |-> "hashes", domain |-> domain, value |-> value])}
        \cup (IF domain \in Names \/ value \in Names THEN {InvalidAddress} ELSE {})

\* signTransaction from the resolved device signature to the serializer.
SignTransaction ==
    /\ smodule \in EthSigners
    /\ signing.call = "none"
    /\ signing' = [signing EXCEPT !.call = "signTransaction",
                                  !.recovery = RecoveryValue(smodule, signing.v)]
    /\ UNCHANGED <<sessionVars, callerVars, signerVars, retryVars, concurrentVars, parserVars>>

\* signTypedData of ethers-v6 up to the direct operation:
\* `eth.signEIP712Message(this.path, payload)`.
SignTypedDataDirect ==
    /\ smodule = "ethers-v6"
    /\ signing.call = "none"
    /\ LET populated == resolveNames(signing.domain, signing.value) IN
          signing' = [signing EXCEPT !.call = "signEIP712Message",
                                     !.submitted = getPayload(populated.domain, populated.value)]
    /\ UNCHANGED <<sessionVars, callerVars, signerVars, retryVars, concurrentVars, parserVars>>

\* signTypedData of ethers-v6 in its catch block, the direct operation having
\* failed with status 27904: `hashDomain(domain)`, `from(types).hash(value)`,
\* `eth.signEIP712HashedMessage(this.path, domainHash.substring(2), ...)`.
SignTypedDataFallback ==
    /\ smodule = "ethers-v6"
    /\ signing.call = "signEIP712Message"
    /\ \E hashes \in HashOutcomes(signing.domain, signing.value) :
          signing' = [signing EXCEPT !.call = "signEIP712HashedMessage",
                                     !.submitted = hashes]
    /\ UNCHANGED <<sessionVars, callerVars, signerVars, retryVars, concurrentVars, parserVars>>

SigningInit ==
    /\ SessionReady
    /\ smodule \in EthSigners
    /\ SignerIdle
    /\ RetryIdle
    /\ ConcurrentIdle
    /\ ParserIdle
    /\ \E v \in DeviceVs, domain \in TypedFields, value \in TypedFields :
          signing = [NoSigning EXCEPT !.v = v, !.domain = domain, !.value = value]

SigningNext ==
    \/ SignTransaction
    \/ SignTypedDataDirect
    \/ SignTypedDataFallback

SigningSpec == SigningInit /\ [][SigningNext]_vars

(***************************************************************************)
(* signTransaction: the recovery value.                                    *)
(***************************************************************************)

\* C35: the recovery value every adapter's signTransaction hands to its
\* serializer is the number the device's `v` string denotes in hexadecimal.
C35_RecoveryValueIsHex ==
    signing.call = "signTransaction" =>
        signing.recovery = Val(ValueInRadix(signing.v, 16, 0))

(***************************************************************************)
(* signTypedData of ethers-v6: the direct path and the fallback.           *)
(***************************************************************************)

\* C36: the hashes the fallback submits to signEIP712HashedMessage are those
\* of the name-resolved domain and value the payload of the direct path was
\* built from.
C36_FallbackHashesPopulated ==
    signing.call = "signEIP712HashedMessage" =>
        LET populated == resolveNames(signing.domain, signing.value) IN
            signing.submitted =
                Val([form |-> "hashes", domain |-> populated.domain, value |-> populated.value])

====
